---------------------------- MODULE Spec2Model ----------------------------
(***************************************************************************)
(* A model of the two heuristic engines of AI-PayMaster and of its Move    *)
(* module:                                                                 *)
(*   AIYieldOptimizer      (src/src/tools/paymaster/AIYieldOptimizer.ts)   *)
(*   RiskAssessmentEngine  (same file, second half)                        *)
(*   payment_automation    (src/move/sources/payment_automation.move)      *)
(*                                                                         *)
(* JavaScript numbers are modelled as exact rationals extended with NaN,   *)
(* +Infinity and -Infinity (signed zero and binary rounding error are not  *)
(* modelled).  Number.MAX_SAFE_INTEGER is a symbolic finite value larger   *)
(* than every other finite value the bounded inputs can produce.           *)
(***************************************************************************)
EXTENDS Integers, Sequences, FiniteSets, TLC

(***************************************************************************)
(* JavaScript numbers                                                      *)
(***************************************************************************)
Abs(i) == IF i < 0 THEN -i ELSE i

RECURSIVE GCD(_, _)
GCD(a, b) == IF b = 0 THEN a ELSE GCD(b, a % b)

\* The rational n/d (d # 0) in lowest terms with a positive denominator.
Frac(n, d) ==
  LET g == GCD(Abs(n), Abs(d))
      s == IF d < 0 THEN -1 ELSE 1
  IN [n |-> (s * n) \div g, d |-> (s * d) \div g, k |-> "fin"]

Num(i) == [n |-> i, d |-> 1, k |-> "fin"]

NaN == [n |-> 0, d |-> 1, k |-> "nan"]

PosInf == [n |-> 0, d |-> 1, k |-> "pinf"]

NegInf == [n |-> 0, d |-> 1, k |-> "ninf"]

\* Number.MAX_SAFE_INTEGER (2^53 - 1), kept symbolic.
MAX_SAFE_INTEGER == [n |-> 0, d |-> 1, k |-> "max"]

IsNaN(x) == x.k = "nan"

IsFin(x) == x.k = "fin"

\* Position of a non-NaN number on the extended line, for comparisons.
Rank(x) == CASE x.k = "ninf" -> 0 [] x.k = "fin" -> 1 [] x.k = "max" -> 2 [] x.k = "pinf" -> 3

\* a < b ; false when either side is NaN.
Lt(a, b) ==
  /\ ~IsNaN(a)
  /\ ~IsNaN(b)
  /\ IF IsFin(a) /\ IsFin(b) THEN a.n * b.d < b.n * a.d ELSE Rank(a) < Rank(b)

\* a <= b ; false when either side is NaN.
Le(a, b) ==
  /\ ~IsNaN(a)
  /\ ~IsNaN(b)
  /\ IF IsFin(a) /\ IsFin(b) THEN a.n * b.d <= b.n * a.d ELSE Rank(a) <= Rank(b)

Gt(a, b) == Lt(b, a)

\* -1, 0, 1 for a non-NaN number (MAX_SAFE_INTEGER is positive).
Sign(x) ==
  CASE x.k = "fin" -> (IF x.n < 0 THEN -1 ELSE IF x.n = 0 THEN 0 ELSE 1)
    [] x.k = "ninf" -> -1
    [] OTHER -> 1

Neg(x) ==
  CASE x.k = "fin" -> Frac(-x.n, x.d)
    [] x.k = "pinf" -> NegInf
    [] x.k = "ninf" -> PosInf
    [] OTHER -> x

\* a + b.  MAX_SAFE_INTEGER plus or minus a bounded finite value stays a huge
\* finite value, represented by the same symbol.  (The code never multiplies
\* or divides MAX_SAFE_INTEGER; Mul and Div treat it like +Infinity.)
Add(x, y) ==
  CASE IsNaN(x) \/ IsNaN(y) -> NaN
    [] IsFin(x) /\ IsFin(y) -> Frac(x.n * y.d + y.n * x.d, x.d * y.d)
    [] x.k = "pinf" /\ y.k = "ninf" -> NaN
    [] x.k = "ninf" /\ y.k = "pinf" -> NaN
    [] x.k \in {"pinf", "ninf"} -> x
    [] y.k \in {"pinf", "ninf"} -> y
    [] OTHER -> MAX_SAFE_INTEGER

Sub(a, b) == Add(a, Neg(b))

Mul(x, y) ==
  CASE IsNaN(x) \/ IsNaN(y) -> NaN
    [] IsFin(x) /\ IsFin(y) -> Frac(x.n * y.n, x.d * y.d)
    [] Sign(x) = 0 \/ Sign(y) = 0 -> NaN
    [] Sign(x) * Sign(y) > 0 -> PosInf
    [] OTHER -> NegInf

\* a / b with IEEE results for a zero or infinite divisor.
Div(x, y) ==
  CASE IsNaN(x) \/ IsNaN(y) -> NaN
    [] IsFin(x) /\ IsFin(y) /\ y.n # 0 -> Frac(x.n * y.d, x.d * y.n)
    [] IsFin(y) /\ y.n = 0 ->
         (IF Sign(x) = 0 THEN NaN ELSE IF Sign(x) > 0 THEN PosInf ELSE NegInf)
    [] ~IsFin(y) -> (IF IsFin(x) THEN Num(0) ELSE NaN)
    [] OTHER -> (IF Sign(x) * Sign(y) > 0 THEN PosInf ELSE NegInf)

\* A faulty Math.round that drops the fraction (rounds down).
MathFloor(x) == IF IsFin(x) THEN Num(x.n \div x.d) ELSE x

\* Math.round: the nearest integer, halves towards +Infinity.
MathRound(x) == IF IsFin(x) THEN Num((2 * x.n + x.d) \div (2 * x.d)) ELSE x

\* Math.min of two numbers: NaN if either is NaN.
MathMin(x, y) == IF IsNaN(x) \/ IsNaN(y) THEN NaN ELSE IF Lt(y, x) THEN y ELSE x

\* Math.abs
MathAbs(x) == IF ~IsNaN(x) /\ Sign(x) < 0 THEN Neg(x) ELSE x

(***************************************************************************)
(* Strings that hold numbers.  Such a string is modelled as the sequence   *)
(* of its characters: "100" is <<"1", "0", "0">>.                          *)
(***************************************************************************)
DigitChars == <<"0", "1", "2", "3", "4", "5", "6", "7", "8", "9">>

IsDigit(c) == \E v \in 1..10 : DigitChars[v] = c

DigitValue(c) == (CHOOSE v \in 1..10 : DigitChars[v] = c) - 1

\* The number of digit characters of s from position i on, up to the first
\* character that is no digit.
RECURSIVE DigitRun(_, _)
DigitRun(s, i) == IF i <= Len(s) /\ IsDigit(s[i]) THEN 1 + DigitRun(s, i + 1) ELSE 0

\* The natural number the digits s[i..j] spell (0 when j < i).
RECURSIVE DigitsValue(_, _, _)
DigitsValue(s, i, j) ==
  IF j < i THEN 0 ELSE 10 * DigitsValue(s, i, j - 1) + DigitValue(s[j])

RECURSIVE Pow10(_)
Pow10(e) == IF e = 0 THEN 1 ELSE 10 * Pow10(e - 1)

\* The number of digits after a "." at position dot, 0 when there is no "." there.
FractionRun(s, dot) ==
  IF dot <= Len(s) /\ s[dot] = "." THEN DigitRun(s, dot + 1) ELSE 0

\* The value of intLen digits from position start on and fracLen digits after
\* the "." that follows them; NaN when no digit was read.
Magnitude(s, start, intLen, fracLen) ==
  IF intLen + fracLen = 0 THEN NaN
  ELSE Frac(DigitsValue(s, start, start + intLen - 1) * Pow10(fracLen)
              + DigitsValue(s, start + intLen + 1, start + intLen + fracLen),
            Pow10(fracLen))

Unsigned(s, start, intLen) ==
  Magnitude(s, start, intLen, FractionRun(s, start + intLen))

\* parseFloat: an optional sign, digits, an optional fraction; whatever follows
\* is ignored; NaN when no digit was read.  (Leading blanks, exponents and
\* "Infinity" are not modelled.)
parseFloat(s) ==
  IF Len(s) >= 1 /\ s[1] = "-" THEN Neg(Unsigned(s, 2, DigitRun(s, 2)))
  ELSE IF Len(s) >= 1 /\ s[1] = "+" THEN Unsigned(s, 2, DigitRun(s, 2))
  ELSE Unsigned(s, 1, DigitRun(s, 1))

\* The decimal digits of a natural number.
RECURSIVE NatDigits(_)
NatDigits(n) ==
  IF n < 10 THEN <<DigitChars[n + 1]>>
  ELSE NatDigits(n \div 10) \o <<DigitChars[(n % 10) + 1]>>

\* The digits of r/d (0 <= r < d) after the decimal point, at most `places`.
RECURSIVE FractionDigits(_, _, _)
FractionDigits(r, d, places) ==
  IF r = 0 \/ places = 0 THEN <<>>
  ELSE <<DigitChars[((10 * r) \div d) + 1]>> \o FractionDigits((10 * r) % d, d, places - 1)

\* Number.prototype.toString for the values the model produces (a fraction is
\* cut after 16 places; no exponent form).
numberToString(x) ==
  CASE x.k = "nan" -> <<"N", "a", "N">>
    [] x.k = "pinf" -> <<"I", "n", "f", "i", "n", "i", "t", "y">>
    [] x.k = "ninf" -> <<"-", "I", "n", "f", "i", "n", "i", "t", "y">>
    [] x.k = "max" ->
         <<"9", "0", "0", "7", "1", "9", "9", "2", "5", "4", "7", "4", "0", "9", "9", "1">>
    [] OTHER ->
         LET m == Abs(x.n)
             fraction == FractionDigits(m % x.d, x.d, 16)
         IN (IF x.n < 0 THEN <<"-">> ELSE <<>>)
            \o NatDigits(m \div x.d)
            \o (IF fraction = <<>> THEN <<>> ELSE <<".">> \o fraction)

(***************************************************************************)
(* State                                                                   *)
(***************************************************************************)
VARIABLES
  protocols,           \* AIYieldOptimizer.protocols: the catalog, in order
  userRiskPreference,  \* AIYieldOptimizer.userRiskPreference
  updateCount,         \* number of successful updateProtocolInfo calls so far
  thresholds,          \* RiskAssessmentEngine: the nine *_THRESHOLD fields
  mockData,            \* RiskAssessmentEngine.mockData
  now,                 \* Date.now() / 1000, counted from the engine's construction
  call,                \* the last call made: [op, args]
  ret,                 \* its outcome: [threw, error, value]
  memo,                \* the last optimizeAllocation call since the last change
                       \* of the optimizer's state: [set, args, value, reads, again]
  schedules,           \* on chain: address -> its PaymentSchedules<CoinType> resource
  balances,            \* on chain: address -> the value of its CoinStore<CoinType>
  chainTime            \* on chain: timestamp::now_seconds()

optimizerVars == <<protocols, userRiskPreference, updateCount, memo>>

engineVars == <<thresholds, mockData, now>>

chainVars == <<schedules, balances, chainTime>>

vars == <<protocols, userRiskPreference, updateCount, thresholds, mockData, now,
          call, ret, memo, schedules, balances, chainTime>>

(***************************************************************************)
(* Bounds of the model                                                     *)
(***************************************************************************)
\* setRiskPreference and the constructor are tried with 0 .. MaxPreferenceArg.
MaxPreferenceArg == 11

\* updateProtocolInfo is tried with the ids 1 .. MaxProtocolIdArg.
MaxProtocolIdArg == 4

\* At most this many successful updateProtocolInfo calls in a behaviour.
MaxUpdates == 1

\* The clock advances a day at a time, at most this many times.
MaxTicks == 1

(***************************************************************************)
(* AIYieldOptimizer                                                        *)
(***************************************************************************)
\* The catalog the constructor builds.
InitialProtocols ==
  << [id |-> 1, name |-> "Thala", currentApy |-> Frac(52, 10), riskScore |-> 3,
      minimumDeposit |-> <<"1">>, lockupPeriod |-> 0],
     [id |-> 2, name |-> "Aries", currentApy |-> Frac(78, 10), riskScore |-> 5,
      minimumDeposit |-> <<"1", "0">>, lockupPeriod |-> 86400 * 7],
     [id |-> 3, name |-> "Momentum", currentApy |-> Frac(125, 10), riskScore |-> 8,
      minimumDeposit |-> <<"1", "0", "0">>, lockupPeriod |-> 86400 * 30] >>

Ok(v) == [threw |-> FALSE, error |-> "", value |-> v]

Threw(msg) == [threw |-> TRUE, error |-> msg, value |-> FALSE]

NoMemo == [set |-> FALSE, args |-> <<>>, value |-> <<>>, reads |-> FALSE, again |-> FALSE]

\* The memo after a call that left the optimizer's state as it was.
MemoAfterRead == IF memo.set THEN [memo EXCEPT !.reads = TRUE, !.again = FALSE] ELSE memo

\* findIndex: the first index whose entry has the id, 0 when there is none.
findIndex(protocolId) ==
  LET hits == {i \in 1..Len(protocols) : protocols[i].id = protocolId}
  IN IF hits = {} THEN 0 ELSE CHOOSE i \in hits : \A j \in hits : i <= j

\* A faulty merge, { ...updates, ...entry }: the fields already stored win.
MergeKeepingStoredFields(entry, updates) ==
  [f \in DOMAIN entry \cup DOMAIN updates |->
     IF f \in DOMAIN entry THEN entry[f] ELSE updates[f]]

\* { ...entry, ...updates }
Merge(entry, updates) ==
  [f \in DOMAIN entry \cup DOMAIN updates |->
     IF f \in DOMAIN updates THEN updates[f] ELSE entry[f]]

\* A faulty penalty scaled by 10 - riskPreference, which is zero at preference 10.
RiskPenaltyZeroAtTen(riskScore, riskPreference) ==
  Div(Num(riskScore * (10 - riskPreference)), Num(10))

\* (riskScore * (11 - this.userRiskPreference)) / 10
RiskPenalty(riskScore, riskPreference) ==
  Div(Num(riskScore * (11 - riskPreference)), Num(10))

calculateRiskAdjustedApy(apy, riskScore) ==
  Sub(apy, RiskPenalty(riskScore, userRiskPreference))

\* A faulty variant of getRiskLevelDescription whose first bound is exclusive.
getRiskLevelDescriptionBelowThree(riskScore) ==
  IF riskScore < 3 THEN "Low" ELSE IF riskScore <= 6 THEN "Medium" ELSE "High"

getRiskLevelDescription(riskScore) ==
  IF riskScore <= 3 THEN "Low" ELSE IF riskScore <= 6 THEN "Medium" ELSE "High"

\* The reason text: its tier and the two values it interpolates.
generateRecommendationReason(protocol, allocationPercentage) ==
  LET riskLevel == getRiskLevelDescription(protocol.riskScore)
      tier == IF Gt(allocationPercentage, Num(50)) THEN "Strongly recommended"
              ELSE IF Gt(allocationPercentage, Num(25)) THEN "Good allocation"
              ELSE "Small allocation"
  IN [tier |-> tier, apy |-> protocol.currentApy, risk |-> riskLevel]

\* A faulty filter that drops nothing.
KeepEveryProtocol(seq, allocatableFunds) == seq

\* filter((p) => parseFloat(p.minimumDeposit) <= allocatableFunds)
RECURSIVE FilterByMinimumDeposit(_, _)
FilterByMinimumDeposit(seq, allocatableFunds) ==
  IF seq = <<>> THEN <<>>
  ELSE (IF Le(parseFloat(Head(seq).minimumDeposit), allocatableFunds)
          THEN <<Head(seq)>> ELSE <<>>)
       \o FilterByMinimumDeposit(Tail(seq), allocatableFunds)

\* A faulty step of the sort that is not stable: p goes before the first
\* entry whose adjusted APY is lower or equal.
RECURSIVE InsertBeforeEqualAdjustedApy(_, _)
InsertBeforeEqualAdjustedApy(sorted, p) ==
  IF sorted = <<>> THEN <<p>>
  ELSE IF Le(Head(sorted).adjustedApy, p.adjustedApy)
    THEN <<p>> \o sorted
    ELSE <<Head(sorted)>> \o InsertBeforeEqualAdjustedApy(Tail(sorted), p)

\* One step of the stable sort with comparator (a, b) => b.adjustedApy - a.adjustedApy:
\* p goes before the first entry whose adjusted APY is strictly lower.
RECURSIVE InsertByAdjustedApy(_, _)
InsertByAdjustedApy(sorted, p) ==
  IF sorted = <<>> THEN <<p>>
  ELSE IF Lt(Head(sorted).adjustedApy, p.adjustedApy)
    THEN <<p>> \o sorted
    ELSE <<Head(sorted)>> \o InsertByAdjustedApy(Tail(sorted), p)

\* Array.prototype.sort (stable), highest adjusted APY first.
RECURSIVE SortByAdjustedApy(_)
SortByAdjustedApy(seq) ==
  IF seq = <<>> THEN <<>>
  ELSE InsertByAdjustedApy(SortByAdjustedApy(SubSeq(seq, 1, Len(seq) - 1)), seq[Len(seq)])

\* reduce((sum, p) => sum + p.adjustedApy, 0)
RECURSIVE SumAdjustedApy(_)
SumAdjustedApy(seq) ==
  IF seq = <<>> THEN Num(0)
  ELSE Add(SumAdjustedApy(SubSeq(seq, 1, Len(seq) - 1)), seq[Len(seq)].adjustedApy)

\* The forEach of optimizeAllocation from position index on, with the
\* remaining percentage carried along.
RECURSIVE Allocate(_, _, _, _)
Allocate(sorted, totalAdjustedApy, index, remainingPercentage) ==
  IF index > Len(sorted) THEN <<>>
  ELSE
    LET protocol == sorted[index]
        allocationPercentage ==
          IF index = Len(sorted) THEN remainingPercentage
          ELSE MathMin(
                 MathRound(Mul(Div(protocol.adjustedApy, totalAdjustedApy), Num(100))),
                 remainingPercentage)
        rest == Allocate(sorted, totalAdjustedApy, index + 1,
                         Sub(remainingPercentage, allocationPercentage))
    IN IF Gt(allocationPercentage, Num(0))
         THEN << [protocolId |-> protocol.id,
                  protocolName |-> protocol.name,
                  allocationPercentage |-> allocationPercentage,
                  expectedApy |-> protocol.currentApy,
                  riskLevel |-> getRiskLevelDescription(protocol.riskScore),
                  reason |-> generateRecommendationReason(protocol, allocationPercentage)] >>
              \o rest
         ELSE rest

\* availableFundsNumber - availableFundsNumber * (emergencyFundsPercentage / 100)
AllocatableFunds(availableFunds, emergencyFundsPercentage) ==
  LET availableFundsNumber == parseFloat(availableFunds)
      emergencyFunds ==
        Mul(availableFundsNumber, Div(Num(emergencyFundsPercentage), Num(100)))
  IN Sub(availableFundsNumber, emergencyFunds)

\* The catalog entries whose minimum deposit the allocatable funds cover.
EligibleProtocols(allocatableFunds) == FilterByMinimumDeposit(protocols, allocatableFunds)

\* The eligible entries with their adjusted APY, highest first.
ProtocolsWithAdjustedApy(eligibleProtocols) ==
  SortByAdjustedApy(
    [i \in 1..Len(eligibleProtocols) |->
       Merge(eligibleProtocols[i],
             [adjustedApy |-> calculateRiskAdjustedApy(eligibleProtocols[i].currentApy,
                                                       eligibleProtocols[i].riskScore)])])

optimizeAllocation(availableFunds, emergencyFundsPercentage) ==
  LET allocatableFunds == AllocatableFunds(availableFunds, emergencyFundsPercentage)
      eligibleProtocols == EligibleProtocols(allocatableFunds)
      protocolsWithAdjustedApy == ProtocolsWithAdjustedApy(eligibleProtocols)
  IN IF Le(allocatableFunds, Num(0)) THEN <<>>
     ELSE IF Len(eligibleProtocols) = 0 THEN <<>>
     ELSE Allocate(protocolsWithAdjustedApy, SumAdjustedApy(protocolsWithAdjustedApy),
                   1, Num(100))

\* x || 0 for a number x
OrZero(x) == IF IsNaN(x) \/ (IsFin(x) /\ x.n = 0) THEN Num(0) ELSE x

\* recommendedAllocation[protocolId] || 0, where recommendedAllocation is filled
\* from the recommendations in order (a later entry of the same id overwrites).
RecommendedAllocation(recommendations, protocolId) ==
  LET hits == {i \in 1..Len(recommendations) : recommendations[i].protocolId = protocolId}
  IN IF hits = {} THEN Num(0)
     ELSE OrZero(recommendations[CHOOSE i \in hits : \A j \in hits : j <= i].allocationPercentage)

\* currentAllocation: a map from protocol ids to percentages.
shouldRebalance(currentAllocation) ==
  LET recommendations == optimizeAllocation(<<"1", "0", "0", "0">>, 10)
  IN \E protocolId \in DOMAIN currentAllocation :
       LET current == OrZero(currentAllocation[protocolId])
           recommended == RecommendedAllocation(recommendations, protocolId)
       IN Gt(MathAbs(Sub(current, recommended)), Num(10))

(***************************************************************************)
(* RiskAssessmentEngine                                                    *)
(***************************************************************************)
\* The thresholds the field initialisers set.
InitialThresholds ==
  [liquidity   |-> [medium |-> 80, high |-> 50, critical |-> 20],
   collateral  |-> [medium |-> 150, high |-> 125, critical |-> 110],
   liquidation |-> [medium |-> 7 * 86400, high |-> 3 * 86400, critical |-> 1 * 86400]]

\* The ledger the constructor builds at time t (= Date.now() / 1000).
InitialMockData(t) ==
  [payments |->
     << [id |-> 1, recipient |-> "0x123", amount |-> <<"1", "0", "0">>,
         nextPaymentTime |-> t + 86400 * 2, coin |-> "0x1::aptos_coin::AptosCoin"],
        [id |-> 2, recipient |-> "0x456", amount |-> <<"5", "0">>,
         nextPaymentTime |-> t + 86400 * 5, coin |-> "0x1::usdc::USDC"] >>,
   positions |->
     << [protocol |-> "Aries", borrowedAsset |-> "USDC", borrowedAmount |-> <<"1", "0", "0", "0">>,
         collateralAsset |-> "APT", collateralAmount |-> <<"5", "0">>,
         liquidationThreshold |-> 125],
        [protocol |-> "Momentum", borrowedAsset |-> "USDT", borrowedAmount |-> <<"5", "0", "0">>,
         collateralAsset |-> "APT", collateralAmount |-> <<"3", "5">>,
         liquidationThreshold |-> 110] >>,
   prices |-> [APT |-> Num(10), USDC |-> Num(1), USDT |-> Num(1)],
   priceMovements |-> [APT |-> Frac(-25, 10), USDC |-> Num(0), USDT |-> Num(0)]]

\* A null result; every non-null result carries null |-> FALSE.
Null == [null |-> TRUE]

\* this.mockData.prices[asset]: a missing key reads as undefined, which every
\* arithmetic use turns into NaN.
PriceOf(asset) ==
  IF asset \in DOMAIN mockData.prices THEN mockData.prices[asset] ELSE NaN

\* this.mockData.priceMovements[asset], undefined read as NaN (undefined >= 0 is
\* false and Math.abs(undefined) is NaN, as for NaN).
PriceMovementOf(asset) ==
  IF asset \in DOMAIN mockData.priceMovements THEN mockData.priceMovements[asset] ELSE NaN

\* A faulty classification that tests the medium threshold first.
RiskLevelMediumFirst(value, t) ==
  IF Le(value, Num(t.medium)) THEN "Medium"
  ELSE IF Le(value, Num(t.high)) THEN "High"
  ELSE IF Le(value, Num(t.critical)) THEN "Critical"
  ELSE "Low"

\* The first-match classification shared by the three assessments.
RiskLevel(value, t) ==
  IF Le(value, Num(t.critical)) THEN "Critical"
  ELSE IF Le(value, Num(t.high)) THEN "High"
  ELSE IF Le(value, Num(t.medium)) THEN "Medium"
  ELSE "Low"

\* A faulty forEach that counts the payments of every coin.
RECURSIVE SumPaymentsOfEveryCoin(_, _)
SumPaymentsOfEveryCoin(payments, i) ==
  IF i = 0 THEN [requiredLiquidity |-> Num(0), nextPaymentTime |-> MAX_SAFE_INTEGER]
  ELSE
    [requiredLiquidity |->
       Add(SumPaymentsOfEveryCoin(payments, i - 1).requiredLiquidity,
           parseFloat(payments[i].amount)),
     nextPaymentTime |->
       IF Lt(Num(payments[i].nextPaymentTime),
             SumPaymentsOfEveryCoin(payments, i - 1).nextPaymentTime)
         THEN Num(payments[i].nextPaymentTime)
         ELSE SumPaymentsOfEveryCoin(payments, i - 1).nextPaymentTime]

\* The forEach of assessLiquidityRisk over payments[1..i]:
\* [requiredLiquidity, nextPaymentTime].
RECURSIVE SumPayments(_, _)
SumPayments(payments, i) ==
  IF i = 0 THEN [requiredLiquidity |-> Num(0), nextPaymentTime |-> MAX_SAFE_INTEGER]
  ELSE
    LET acc == SumPayments(payments, i - 1)
        payment == payments[i]
    IN IF payment.coin = "0x1::aptos_coin::AptosCoin"
         THEN [requiredLiquidity |-> Add(acc.requiredLiquidity, parseFloat(payment.amount)),
               nextPaymentTime |->
                 IF Lt(Num(payment.nextPaymentTime), acc.nextPaymentTime)
                   THEN Num(payment.nextPaymentTime) ELSE acc.nextPaymentTime]
         ELSE acc

assessLiquidityRisk(availableLiquidity) ==
  LET availableLiquidityNum == parseFloat(availableLiquidity)
      acc == SumPayments(mockData.payments, Len(mockData.payments))
      requiredLiquidity == acc.requiredLiquidity
      liquidityRatio ==
        MathMin(Num(100), Mul(Div(availableLiquidityNum, requiredLiquidity), Num(100)))
  IN IF requiredLiquidity = Num(0) THEN Null
     ELSE [null |-> FALSE,
           requiredLiquidity |-> numberToString(requiredLiquidity),
           availableLiquidity |-> availableLiquidity,
           liquidityRatio |-> liquidityRatio,
           riskLevel |-> RiskLevel(liquidityRatio, thresholds.liquidity),
           timeUntilNextPayment |-> Sub(acc.nextPaymentTime, Num(now))]

BorrowedValue(position) ==
  Mul(parseFloat(position.borrowedAmount), PriceOf(position.borrowedAsset))

CollateralValue(position) ==
  Mul(parseFloat(position.collateralAmount), PriceOf(position.collateralAsset))

CollateralRatio(position) ==
  Mul(Div(CollateralValue(position), BorrowedValue(position)), Num(100))

\* The for loop of assessCollateralRisk over positions[1..i]:
\* [riskiestPosition (0 for null, else its index), lowestCollateralRatio].
RECURSIVE RiskiestByCollateral(_, _)
RiskiestByCollateral(positions, i) ==
  IF i = 0 THEN [riskiestPosition |-> 0, lowestCollateralRatio |-> MAX_SAFE_INTEGER]
  ELSE
    LET acc == RiskiestByCollateral(positions, i - 1)
        collateralRatio == CollateralRatio(positions[i])
    IN IF Lt(collateralRatio, acc.lowestCollateralRatio)
         THEN [riskiestPosition |-> i, lowestCollateralRatio |-> collateralRatio]
         ELSE acc

assessCollateralRisk ==
  LET positions == mockData.positions
      acc == RiskiestByCollateral(positions, Len(positions))
  IN IF Len(positions) = 0 THEN Null
     ELSE IF acc.riskiestPosition = 0 THEN Null
     ELSE [null |-> FALSE,
           borrowedAmount |-> positions[acc.riskiestPosition].borrowedAmount,
           collateralAmount |-> positions[acc.riskiestPosition].collateralAmount,
           collateralRatio |-> acc.lowestCollateralRatio,
           riskLevel |-> RiskLevel(acc.lowestCollateralRatio, thresholds.collateral),
           liquidationThreshold |-> positions[acc.riskiestPosition].liquidationThreshold]

\* (borrowedAmount * borrowedAssetPrice * liquidationThreshold / 100) / collateralAmount
LiquidationPrice(position) ==
  Div(Div(Mul(BorrowedValue(position), Num(position.liquidationThreshold)), Num(100)),
      parseFloat(position.collateralAmount))

\* ((currentPrice - liquidationPrice) / currentPrice) * 100
PriceGap(currentPrice, liquidationPrice) ==
  Mul(Div(Sub(currentPrice, liquidationPrice), currentPrice), Num(100))

\* A faulty variant of EstimatedTimeToLiquidation: the days are not converted
\* to seconds.
EstimatedTimeToLiquidationInDays(priceGap, dailyPriceChange) ==
  IF Le(Num(0), dailyPriceChange) \/ Le(priceGap, Num(0))
    THEN (IF Le(priceGap, Num(0)) THEN Num(0) ELSE MAX_SAFE_INTEGER)
    ELSE Div(priceGap, MathAbs(dailyPriceChange))

EstimatedTimeToLiquidation(priceGap, dailyPriceChange) ==
  IF Le(Num(0), dailyPriceChange) \/ Le(priceGap, Num(0))
    THEN (IF Le(priceGap, Num(0)) THEN Num(0) ELSE MAX_SAFE_INTEGER)
    ELSE Mul(Div(priceGap, MathAbs(dailyPriceChange)), Num(86400))

DetailsWithGap(currentPrice, liquidationPrice, priceGap, dailyPriceChange) ==
  [currentPrice |-> currentPrice,
   liquidationPrice |-> liquidationPrice,
   priceGap |-> priceGap,
   estimatedTimeToLiquidation |-> EstimatedTimeToLiquidation(priceGap, dailyPriceChange)]

DetailsAtPrices(currentPrice, liquidationPrice, dailyPriceChange) ==
  DetailsWithGap(currentPrice, liquidationPrice,
                 PriceGap(currentPrice, liquidationPrice), dailyPriceChange)

\* What one pass of the for loop of assessLiquidationRisk computes for a position.
LiquidationDetails(position) ==
  DetailsAtPrices(PriceOf(position.collateralAsset), LiquidationPrice(position),
                  PriceMovementOf(position.collateralAsset))

\* The if at the end of a pass: the position at index i replaces the riskiest
\* one so far when its estimated time is strictly shorter.
KeepShortest(acc, i, details) ==
  IF Lt(details.estimatedTimeToLiquidation, acc.shortestTimeToLiquidation)
    THEN [riskiestPosition |-> i,
          shortestTimeToLiquidation |-> details.estimatedTimeToLiquidation,
          closestLiquidationDetails |-> details]
    ELSE acc

\* The for loop of assessLiquidationRisk over positions[1..i]:
\* [riskiestPosition (0 for null, else its index), shortestTimeToLiquidation,
\*  closestLiquidationDetails (read only when riskiestPosition is not null)].
RECURSIVE RiskiestByLiquidation(_, _)
RiskiestByLiquidation(positions, i) ==
  IF i = 0
    THEN [riskiestPosition |-> 0,
          shortestTimeToLiquidation |-> MAX_SAFE_INTEGER,
          closestLiquidationDetails |-> DetailsWithGap(NaN, NaN, NaN, NaN)]
    ELSE KeepShortest(RiskiestByLiquidation(positions, i - 1), i,
                      LiquidationDetails(positions[i]))

\* The return statement of assessLiquidationRisk.
LiquidationRiskOf(riskiestPosition, acc) ==
  [null |-> FALSE,
   protocol |-> riskiestPosition.protocol,
   position |-> <<riskiestPosition.borrowedAmount, riskiestPosition.borrowedAsset,
                  riskiestPosition.collateralAmount, riskiestPosition.collateralAsset>>,
   currentPrice |-> numberToString(acc.closestLiquidationDetails.currentPrice),
   liquidationPrice |-> numberToString(acc.closestLiquidationDetails.liquidationPrice),
   priceGap |-> acc.closestLiquidationDetails.priceGap,
   estimatedTimeToLiquidation |-> acc.shortestTimeToLiquidation,
   riskLevel |-> RiskLevel(acc.shortestTimeToLiquidation, thresholds.liquidation)]

LiquidationRiskAfterLoop(positions, acc) ==
  IF Len(positions) = 0 THEN Null
  ELSE IF acc.riskiestPosition = 0 THEN Null
  ELSE LiquidationRiskOf(positions[acc.riskiestPosition], acc)

assessLiquidationRisk ==
  LiquidationRiskAfterLoop(mockData.positions,
                           RiskiestByLiquidation(mockData.positions, Len(mockData.positions)))

\* `digits` zeros or more: s padded on the left with "0" to the given length.
RECURSIVE PadZeros(_, _)
PadZeros(s, length) == IF Len(s) >= length THEN s ELSE PadZeros(<<"0">> \o s, length)

\* Number.prototype.toFixed: the magnitude rounded to `digits` places (a tie
\* goes up), printed with exactly that many places.
toFixed(x, digits) ==
  IF ~IsFin(x) THEN numberToString(x)
  ELSE
    LET scale == Pow10(digits)
        scaled == (2 * Abs(x.n) * scale + x.d) \div (2 * x.d)
    IN (IF x.n < 0 THEN <<"-">> ELSE <<>>)
       \o NatDigits(scaled \div scale)
       \o (IF digits = 0 THEN <<>>
           ELSE <<".">> \o PadZeros(IF scaled % scale = 0 THEN <<>>
                                     ELSE NatDigits(scaled % scale), digits))

\* A faulty variant of LiquidityActions: the urgent message does not wait for
\* a shortfall.
LiquidityActionsUrgentAlone(liquidityRisk) ==
  IF liquidityRisk.null THEN <<>>
  ELSE
    LET liquidityRatio == liquidityRisk.liquidityRatio
        shortfall ==
          Mul(parseFloat(liquidityRisk.requiredLiquidity),
              Sub(Num(1), Div(liquidityRatio, Num(100))))
    IN (IF Lt(liquidityRatio, Num(100))
          THEN << [action |-> "Add APT to cover upcoming payment obligations",
                   detail |-> toFixed(shortfall, 2)] >>
          ELSE <<>>)
       \o (IF Lt(liquidityRisk.timeUntilNextPayment, Num(86400))
             THEN << [action |-> "Urgent: Payment due in less than 24 hours",
                      detail |-> <<>>] >>
             ELSE <<>>)

\* The liquidity, collateral and liquidation rule chains of getRecommendations.
LiquidityActions(liquidityRisk) ==
  IF liquidityRisk.null THEN <<>>
  ELSE
    LET liquidityRatio == liquidityRisk.liquidityRatio
        shortfall ==
          Mul(parseFloat(liquidityRisk.requiredLiquidity),
              Sub(Num(1), Div(liquidityRatio, Num(100))))
    IN (IF Lt(liquidityRatio, Num(100))
          THEN << [action |-> "Add APT to cover upcoming payment obligations",
                   detail |-> toFixed(shortfall, 2)] >>
          ELSE <<>>)
       \o (IF Lt(liquidityRisk.timeUntilNextPayment, Num(86400))
              /\ Lt(liquidityRatio, Num(100))
             THEN << [action |-> "Urgent: Payment due in less than 24 hours",
                      detail |-> <<>>] >>
             ELSE <<>>)

CollateralActions(collateralRisk) ==
  IF collateralRisk.null THEN <<>>
  ELSE
    LET collateralRatio == collateralRisk.collateralRatio
        liquidationThreshold == Num(collateralRisk.liquidationThreshold)
    IN (IF Lt(collateralRatio, Mul(liquidationThreshold, Frac(12, 10)))
          THEN << [action |-> "Consider adding more collateral for a safer buffer",
                   detail |-> <<>>] >>
          ELSE <<>>)
       \o (IF Lt(collateralRatio, Mul(liquidationThreshold, Frac(11, 10)))
             THEN << [action |-> "Warning: Collateral ratio approaching liquidation threshold",
                      detail |-> <<>>] >>
             ELSE <<>>)

LiquidationActions(liquidationRisk) ==
  IF liquidationRisk.null THEN <<>>
  ELSE
    LET estimatedTimeToLiquidation == liquidationRisk.estimatedTimeToLiquidation
        priceGap == liquidationRisk.priceGap
    IN (IF Lt(estimatedTimeToLiquidation, Num(86400 * 3))
          THEN << [action |-> "Critical: position at high risk of liquidation within 3 days",
                   detail |-> <<liquidationRisk.protocol>>] >>
          ELSE IF Lt(estimatedTimeToLiquidation, Num(86400 * 7))
            THEN << [action |-> "Warning: position may face liquidation within a week",
                     detail |-> <<liquidationRisk.protocol>>] >>
            ELSE <<>>)
       \o (IF Lt(priceGap, Num(10))
             THEN << [action |-> "Collateral price only slightly above liquidation price",
                      detail |-> toFixed(priceGap, 1)] >>
             ELSE <<>>)

StableAction ==
  [action |-> "Your positions appear stable", detail |-> <<>>]

\* A faulty variant of OrStable: the stable message is pushed whatever the
\* rules pushed before it.
OrStableAlways(recommendations) ==
  recommendations \o <<StableAction>>

\* recommendations.length === 0 ? ["Your positions appear stable"] : recommendations
OrStable(recommendations) ==
  IF Len(recommendations) = 0 THEN <<StableAction>> ELSE recommendations

\* A faulty variant of getRecommendations that runs the liquidation rules
\* before the collateral rules.
getRecommendationsLiquidationFirst(assessment) ==
  OrStable(LiquidityActions(assessment.liquidityRisk)
           \o LiquidationActions(assessment.liquidationRisk)
           \o CollateralActions(assessment.collateralRisk))

getRecommendations(assessment) ==
  OrStable(LiquidityActions(assessment.liquidityRisk)
           \o CollateralActions(assessment.collateralRisk)
           \o LiquidationActions(assessment.liquidationRisk))

\* A faulty overall level that looks for High before Critical.
OverallRiskLevelHighFirst(liquidityRisk, collateralRisk, liquidationRisk) ==
  LET results == <<liquidityRisk, collateralRisk, liquidationRisk>>
      Includes(level) == \E i \in 1..3 : ~results[i].null /\ results[i].riskLevel = level
  IN IF Includes("High") THEN "High"
     ELSE IF Includes("Critical") THEN "Critical"
     ELSE IF Includes("Medium") THEN "Medium"
     ELSE "Low"

\* The overall level: the first of Critical, High, Medium found among the
\* levels of the non-null results, else Low.
OverallRiskLevel(liquidityRisk, collateralRisk, liquidationRisk) ==
  LET results == <<liquidityRisk, collateralRisk, liquidationRisk>>
      Includes(level) == \E i \in 1..3 : ~results[i].null /\ results[i].riskLevel = level
  IN IF Includes("Critical") THEN "Critical"
     ELSE IF Includes("High") THEN "High"
     ELSE IF Includes("Medium") THEN "Medium"
     ELSE "Low"

\* The assessment object before its recommendedActions are filled in.
AssessmentOf(liquidityRisk, collateralRisk, liquidationRisk) ==
  [liquidityRisk |-> liquidityRisk,
   collateralRisk |-> collateralRisk,
   liquidationRisk |-> liquidationRisk,
   overallRiskLevel |-> OverallRiskLevel(liquidityRisk, collateralRisk, liquidationRisk),
   recommendedActions |-> <<>>]

\* assessment.recommendedActions = this.getRecommendations(assessment)
WithRecommendedActions(assessment) ==
  [assessment EXCEPT !.recommendedActions = getRecommendations(assessment)]

performRiskAssessment(availableLiquidity) ==
  WithRecommendedActions(
    AssessmentOf(assessLiquidityRisk(availableLiquidity), assessCollateralRisk,
                 assessLiquidationRisk))

(***************************************************************************)
(* Inputs tried                                                            *)
(***************************************************************************)
PreferenceArgs == 0..MaxPreferenceArg

AvailableFundsArgs ==
  { <<"1", "0", "0", "0">>, <<"1", "0", "0">>, <<"1">>, <<"a", "b", "c">> }

EmergencyFundsPercentageArgs == {10, 100}

\* The argument pairs optimizeAllocation is called with: every amount with the
\* default emergency percentage, and the largest amount with every percentage.
OptimizeAllocationArgs ==
  {<<f, 10>> : f \in AvailableFundsArgs}
    \cup {<< <<"1", "0", "0", "0">>, e >> : e \in EmergencyFundsPercentageArgs}

\* Partial<ProtocolInfo> values passed to updateProtocolInfo.
UpdatesArgs ==
  { [currentApy |-> Num(1)],
    [riskScore |-> 9, minimumDeposit |-> <<"1", "0", "0", "0">>],
    [id |-> 1, currentApy |-> Frac(64, 10)] }

\* The (protocolId, updates) pairs updateProtocolInfo is called with: every id
\* with every value above, and Aries with an APY of 6.37.
UpdateProtocolInfoArgs ==
  ((1..MaxProtocolIdArg) \X UpdatesArgs) \cup {<<2, [currentApy |-> Frac(637, 100)]>>}

\* Record<number, number> values passed to shouldRebalance.
CurrentAllocationArgs ==
  { <<>>,
    (1 :> Num(22)) @@ (2 :> Num(30)) @@ (3 :> Num(48)),
    (1 :> Num(100)) @@ (4 :> Num(5)) }

(***************************************************************************)
(* Operations of AIYieldOptimizer                                          *)
(***************************************************************************)
\* A faulty setRiskPreference whose range check is off by one at both ends.
SetRiskPreferenceOffByOne(riskPreference) ==
  /\ call' = [op |-> "setRiskPreference", args |-> <<riskPreference>>]
  /\ IF riskPreference < 2 \/ riskPreference > 11
       THEN /\ ret' = Threw("Risk preference must be between 1 and 10")
            /\ memo' = MemoAfterRead
            /\ UNCHANGED userRiskPreference
       ELSE /\ userRiskPreference' = riskPreference
            /\ ret' = Ok(FALSE)
            /\ memo' = IF riskPreference = userRiskPreference THEN MemoAfterRead ELSE NoMemo
  /\ UNCHANGED <<protocols, updateCount>>
  /\ UNCHANGED engineVars
  /\ UNCHANGED chainVars

SetRiskPreference(riskPreference) ==
  /\ call' = [op |-> "setRiskPreference", args |-> <<riskPreference>>]
  /\ IF riskPreference < 1 \/ riskPreference > 10
       THEN /\ ret' = Threw("Risk preference must be between 1 and 10")
            /\ memo' = MemoAfterRead
            /\ UNCHANGED userRiskPreference
       ELSE /\ userRiskPreference' = riskPreference
            /\ ret' = Ok(FALSE)
            /\ memo' = IF riskPreference = userRiskPreference THEN MemoAfterRead ELSE NoMemo
  /\ UNCHANGED <<protocols, updateCount>>
  /\ UNCHANGED engineVars
  /\ UNCHANGED chainVars

UpdateProtocolInfo(protocolId, updates) ==
  LET index == findIndex(protocolId)
  IN /\ call' = [op |-> "updateProtocolInfo", args |-> <<protocolId, updates>>]
     /\ IF index = 0
          THEN /\ ret' = Threw("Protocol with ID " \o ToString(protocolId) \o " not found")
               /\ memo' = MemoAfterRead
               /\ UNCHANGED <<protocols, updateCount>>
          ELSE /\ updateCount < MaxUpdates
               /\ protocols' = [protocols EXCEPT ![index] = Merge(protocols[index], updates)]
               /\ updateCount' = updateCount + 1
               /\ ret' = Ok(FALSE)
               /\ memo' = IF protocols' = protocols THEN MemoAfterRead ELSE NoMemo
     /\ UNCHANGED userRiskPreference
     /\ UNCHANGED engineVars
     /\ UNCHANGED chainVars

\* A faulty optimizeAllocation that keeps its recommendations array between
\* calls: a repeated call returns the earlier list followed by the new one.
OptimizeAllocationKeepingList(availableFunds, emergencyFundsPercentage) ==
  /\ call' = [op |-> "optimizeAllocation",
              args |-> <<availableFunds, emergencyFundsPercentage>>]
  /\ ret' = Ok((IF memo.set THEN memo.value ELSE <<>>)
               \o optimizeAllocation(availableFunds, emergencyFundsPercentage))
  /\ memo' = [set |-> TRUE, args |-> call'.args, value |-> ret'.value, reads |-> FALSE,
              again |-> memo.set /\ memo.reads /\ memo.args = call'.args]
  /\ UNCHANGED <<protocols, userRiskPreference, updateCount>>
  /\ UNCHANGED engineVars
  /\ UNCHANGED chainVars

\* A faulty optimizeAllocation that sorts the catalog itself, not a copy of it.
OptimizeAllocationSortingCatalog(availableFunds, emergencyFundsPercentage) ==
  /\ call' = [op |-> "optimizeAllocation",
              args |-> <<availableFunds, emergencyFundsPercentage>>]
  /\ ret' = Ok(optimizeAllocation(availableFunds, emergencyFundsPercentage))
  /\ protocols' =
       [i \in 1..Len(protocols) |->
          [f \in DOMAIN protocols[i] |-> ProtocolsWithAdjustedApy(protocols)[i][f]]]
  /\ memo' = [set |-> TRUE, args |-> call'.args, value |-> ret'.value, reads |-> FALSE,
              again |-> memo.set /\ memo.reads /\ memo.args = call'.args]
  /\ UNCHANGED <<userRiskPreference, updateCount>>
  /\ UNCHANGED engineVars
  /\ UNCHANGED chainVars

OptimizeAllocation(availableFunds, emergencyFundsPercentage) ==
  /\ call' = [op |-> "optimizeAllocation",
              args |-> <<availableFunds, emergencyFundsPercentage>>]
  /\ ret' = Ok(optimizeAllocation(availableFunds, emergencyFundsPercentage))
  /\ memo' = [set |-> TRUE, args |-> call'.args, value |-> ret'.value, reads |-> FALSE,
              again |-> memo.set /\ memo.reads /\ memo.args = call'.args]
  /\ UNCHANGED <<protocols, userRiskPreference, updateCount>>
  /\ UNCHANGED engineVars
  /\ UNCHANGED chainVars

ShouldRebalance(currentAllocation) ==
  /\ call' = [op |-> "shouldRebalance", args |-> <<currentAllocation>>]
  /\ ret' = Ok(shouldRebalance(currentAllocation))
  /\ memo' = MemoAfterRead
  /\ UNCHANGED <<protocols, userRiskPreference, updateCount>>
  /\ UNCHANGED engineVars
  /\ UNCHANGED chainVars

\* Returns a copy of the catalog array.
GetProtocolsInfo ==
  /\ call' = [op |-> "getProtocolsInfo", args |-> <<>>]
  /\ ret' = Ok(protocols)
  /\ memo' = MemoAfterRead
  /\ UNCHANGED <<protocols, userRiskPreference, updateCount>>
  /\ UNCHANGED engineVars
  /\ UNCHANGED chainVars

(***************************************************************************)
(* Operations of RiskAssessmentEngine                                      *)
(***************************************************************************)
\* The three optional arguments of setRiskThresholds, as a record that holds
\* the ones supplied.
SetRiskThresholdsArgs ==
  { <<>>,
    [liquidity |-> [medium |-> 90, high |-> 60, critical |-> 30]],
    [liquidity |-> [medium |-> 80, high |-> 50, critical |-> -1]],
    [collateral |-> [medium |-> 150, high |-> 160, critical |-> 110]],
    [collateral |-> [medium |-> 200, high |-> 160, critical |-> 110],
     liquidation |-> [medium |-> 10 * 86400, high |-> 5 * 86400, critical |-> 2 * 86400]] }

AvailableLiquidityArgs ==
  { <<"5", "0", "0">>, <<"7", "5">>, <<"5", "0">>, <<"0">>, <<"a", "b", "c">> }

\* Partial<mockData> values passed to updateMockData.
UpdateMockDataArgs ==
  { [payments |-> <<>>],
    [payments |->
       << [id |-> 2, recipient |-> "0x456", amount |-> <<"5", "0">>,
           nextPaymentTime |-> 86400 * 5, coin |-> "0x1::usdc::USDC"] >>],
    [payments |->
       << [id |-> 3, recipient |-> "0x789", amount |-> <<"5", "0", "0">>,
           nextPaymentTime |-> 86400, coin |-> "0x1::aptos_coin::AptosCoin"] >>],
    [positions |-> <<>>],
    [positions |->
       << [protocol |-> "Thala", borrowedAsset |-> "USDC", borrowedAmount |-> <<"1", "0", "0">>,
           collateralAsset |-> "APT", collateralAmount |-> <<"5", "0">>,
           liquidationThreshold |-> 125] >>],
    [positions |->
       << [protocol |-> "Aries", borrowedAsset |-> "USDC", borrowedAmount |-> <<"5", "0", "0">>,
           collateralAsset |-> "APT", collateralAmount |-> <<"7", "5">>,
           liquidationThreshold |-> 125] >>],
    [positions |->
       << [protocol |-> "Momentum", borrowedAsset |-> "USDT", borrowedAmount |-> <<"0">>,
           collateralAsset |-> "APT", collateralAmount |-> <<"3", "5">>,
           liquidationThreshold |-> 110] >>],
    [priceMovements |-> [APT |-> Num(1), USDC |-> Num(0), USDT |-> Num(0)]],
    [prices |-> [APT |-> Num(30), USDT |-> Num(1)]] }

SetRiskThresholds(supplied) ==
  /\ call' = [op |-> "setRiskThresholds", args |-> <<supplied>>]
  /\ thresholds' =
       [dimension \in DOMAIN thresholds |->
          IF dimension \in DOMAIN supplied THEN supplied[dimension] ELSE thresholds[dimension]]
  /\ ret' = Ok(FALSE)
  /\ UNCHANGED <<mockData, now>>
  /\ UNCHANGED optimizerVars
  /\ UNCHANGED chainVars

AssessLiquidityRisk(availableLiquidity) ==
  /\ call' = [op |-> "assessLiquidityRisk", args |-> <<availableLiquidity>>]
  /\ ret' = Ok(assessLiquidityRisk(availableLiquidity))
  /\ UNCHANGED engineVars
  /\ UNCHANGED chainVars
  /\ UNCHANGED optimizerVars
  /\ UNCHANGED chainVars

AssessCollateralRisk ==
  /\ call' = [op |-> "assessCollateralRisk", args |-> <<>>]
  /\ ret' = Ok(assessCollateralRisk)
  /\ UNCHANGED engineVars
  /\ UNCHANGED chainVars
  /\ UNCHANGED optimizerVars
  /\ UNCHANGED chainVars

AssessLiquidationRisk ==
  /\ call' = [op |-> "assessLiquidationRisk", args |-> <<>>]
  /\ ret' = Ok(assessLiquidationRisk)
  /\ UNCHANGED engineVars
  /\ UNCHANGED chainVars
  /\ UNCHANGED optimizerVars
  /\ UNCHANGED chainVars

PerformRiskAssessment(availableLiquidity) ==
  /\ call' = [op |-> "performRiskAssessment", args |-> <<availableLiquidity>>]
  /\ ret' = Ok(performRiskAssessment(availableLiquidity))
  /\ UNCHANGED engineVars
  /\ UNCHANGED chainVars
  /\ UNCHANGED optimizerVars
  /\ UNCHANGED chainVars

\* this.mockData = { ...this.mockData, ...data }
UpdateMockData(data) ==
  /\ call' = [op |-> "updateMockData", args |-> <<data>>]
  /\ mockData' = Merge(mockData, data)
  /\ ret' = Ok(FALSE)
  /\ UNCHANGED <<thresholds, now>>
  /\ UNCHANGED optimizerVars
  /\ UNCHANGED chainVars

\* A day passes.
Tick ==
  /\ now < MaxTicks * 86400
  /\ now' = now + 86400
  /\ call' = [op |-> "clock", args |-> <<>>]
  /\ ret' = Ok(FALSE)
  /\ UNCHANGED <<thresholds, mockData>>
  /\ UNCHANGED optimizerVars
  /\ UNCHANGED chainVars

(***************************************************************************)
(* paymaster::payment_automation  (src/move/sources/payment_automation.move) *)
(*                                                                         *)
(* A transaction either commits all of its writes or aborts and leaves the *)
(* chain as it was.  u64 is modelled U64Bits wide; u64 addition aborts the *)
(* transaction on overflow.                                                *)
(***************************************************************************)
\* The width of u64 in the model.
U64Bits == 3

MAX_U64 == 2^U64Bits - 1

\* timestamp::now_seconds() runs from 0 to MaxChainTime.
MaxChainTime == 1

\* At most this many events are emitted (successful create, cancel and
\* execute transactions) in a behaviour.
MaxEvents == 3

\* cancel, execute and the views are tried with the ids 0 .. MaxPaymentIdArg.
MaxPaymentIdArg == 1

\* The accounts that sign transactions.
Signers == {"0xa", "0xb"}

\* 0xa and 0xb hold a CoinStore<CoinType>, 0xc does not.
InitialBalances == [a \in Signers |-> IF a = "0xa" THEN 2 ELSE 1]

\* PaymentSchedules<CoinType> as initialize_payment_schedules publishes it.
NewPaymentSchedules ==
  [payments |-> <<>>,
   next_payment_id |-> 0,
   payment_created_events |-> <<>>,
   payment_executed_events |-> <<>>,
   payment_cancelled_events |-> <<>>]

\* The outcome of a transaction that ran to its end with these writes.
Committed(writtenSchedules, writtenBalances) ==
  [abort |-> "", schedules |-> writtenSchedules, balances |-> writtenBalances]

\* assert! / abort: the transaction fails with the reason and the writes it
\* made so far are discarded.
Aborted(reason, writtenSchedules, writtenBalances) ==
  [abort |-> reason, schedules |-> schedules, balances |-> balances]

\* table::upsert on the resource map / a table: m with key k bound to v.
Put(m, k, v) == [x \in DOMAIN m \cup {k} |-> IF x = k THEN v ELSE m[x]]

\* coin::transfer<CoinType>(from, to, amount) on the balances b: withdraw from
\* the sender's CoinStore, deposit into the recipient's.
coin_transfer(b, from, to, amount) ==
  IF from \notin DOMAIN b
    THEN [abort |-> "not_found(ECOIN_STORE_NOT_PUBLISHED)", balances |-> b]
  ELSE IF b[from] < amount
    THEN [abort |-> "invalid_argument(EINSUFFICIENT_BALANCE)", balances |-> b]
  ELSE IF to \notin DOMAIN b
    THEN [abort |-> "not_found(ECOIN_STORE_NOT_PUBLISHED)", balances |-> b]
  ELSE LET withdrawn == [b EXCEPT ![from] = @ - amount]
       IN IF withdrawn[to] + amount > MAX_U64
            THEN [abort |-> "ARITHMETIC_ERROR", balances |-> b]
            ELSE [abort |-> "", balances |-> [withdrawn EXCEPT ![to] = @ + amount]]

\* initialize_payment_schedules: publishes the resource unless it exists.
initialize_payment_schedules(s, account_addr) ==
  IF account_addr \notin DOMAIN s THEN Put(s, account_addr, NewPaymentSchedules) ELSE s

\* The start of a new schedule: the given start time, or now when it is 0.
FirstPaymentTime(start_time) == IF start_time = 0 THEN chainTime ELSE start_time

create_scheduled_payment(account_addr, recipient, amount, interval_seconds, start_time) ==
  IF ~(interval_seconds > 0)
    THEN Aborted("invalid_argument(E_INVALID_SCHEDULE)", schedules, balances)
  ELSE IF ~(amount > 0)
    THEN Aborted("invalid_argument(E_INVALID_SCHEDULE)", schedules, balances)
  ELSE IF ~(recipient # "0x0")
    THEN Aborted("invalid_argument(E_INVALID_RECIPIENT)", schedules, balances)
  ELSE
    LET initialized == initialize_payment_schedules(schedules, account_addr)
        resource == initialized[account_addr]
        payment_id == resource.next_payment_id
        next_payment_time == FirstPaymentTime(start_time)
        payment == [payment_id |-> payment_id,
                    recipient |-> recipient,
                    amount |-> amount,
                    interval_seconds |-> interval_seconds,
                    next_payment_time |-> next_payment_time,
                    is_active |-> TRUE]
        created == [payment_id |-> payment_id,
                    recipient |-> recipient,
                    amount |-> amount,
                    interval_seconds |-> interval_seconds,
                    next_payment_time |-> next_payment_time]
    IN IF payment_id \in DOMAIN resource.payments
         THEN Aborted("invalid_argument(EALREADY_EXISTS)", initialized, balances)
       ELSE IF payment_id + 1 > MAX_U64
         THEN Aborted("ARITHMETIC_ERROR", initialized, balances)
       ELSE Committed(
              Put(initialized, account_addr,
                  [resource EXCEPT
                     !.payments = Put(@, payment_id, payment),
                     !.next_payment_id = payment_id + 1,
                     !.payment_created_events = Append(@, created)]),
              balances)

cancel_scheduled_payment(account_addr, payment_id) ==
  IF account_addr \notin DOMAIN schedules
    THEN Aborted("not_found(E_PAYMENT_NOT_FOUND)", schedules, balances)
  ELSE IF payment_id \notin DOMAIN schedules[account_addr].payments
    THEN Aborted("not_found(E_PAYMENT_NOT_FOUND)", schedules, balances)
  ELSE Committed(
         [schedules EXCEPT
            ![account_addr].payments[payment_id].is_active = FALSE,
            ![account_addr].payment_cancelled_events =
               Append(@, [payment_id |-> payment_id, cancelled_at |-> chainTime])],
         balances)

\* A variant that lets an inactive payment through.
PaymentIsActiveAlways(payment) == TRUE

\* assert!(payment.is_active, ...)
PaymentIsActive(payment) == payment.is_active

\* A variant that takes every payment for due.
PaymentIsDueAlways(payment, current_time) == TRUE

\* assert!(current_time >= payment.next_payment_time, ...)
PaymentIsDue(payment, current_time) == current_time >= payment.next_payment_time

\* if (executor_addr == payer) { transfer } else { abort }
ExecutorMayPay(executor_addr, payer) == executor_addr = payer

execute_payment(executor_addr, payer, payment_id) ==
  IF payer \notin DOMAIN schedules
    THEN Aborted("not_found(E_PAYMENT_NOT_FOUND)", schedules, balances)
  ELSE IF payment_id \notin DOMAIN schedules[payer].payments
    THEN Aborted("not_found(E_PAYMENT_NOT_FOUND)", schedules, balances)
  ELSE
    LET payment == schedules[payer].payments[payment_id]
        current_time == chainTime
    IN IF ~PaymentIsActive(payment)
         THEN Aborted("invalid_state(E_PAYMENT_NOT_FOUND)", schedules, balances)
       ELSE IF ~PaymentIsDue(payment, current_time)
         THEN Aborted("invalid_state(E_INVALID_SCHEDULE)", schedules, balances)
       ELSE IF ~ExecutorMayPay(executor_addr, payer)
         THEN Aborted("permission_denied(E_NOT_AUTHORIZED)", schedules, balances)
       ELSE
         LET transfer == coin_transfer(balances, payer, payment.recipient, payment.amount)
         IN IF transfer.abort # ""
              THEN Aborted(transfer.abort, schedules, balances)
            ELSE IF current_time + payment.interval_seconds > MAX_U64
              THEN Aborted("ARITHMETIC_ERROR", schedules, transfer.balances)
            ELSE Committed(
                   [schedules EXCEPT
                      ![payer].payments[payment_id].next_payment_time =
                         current_time + payment.interval_seconds,
                      ![payer].payment_executed_events =
                         Append(@, [payment_id |-> payment_id,
                                    recipient |-> payment.recipient,
                                    amount |-> payment.amount,
                                    executed_at |-> current_time,
                                    next_payment_time |->
                                      current_time + payment.interval_seconds])],
                   transfer.balances)

\* The view get_payment_details: [threw, error, value].
get_payment_details(payer, payment_id) ==
  IF payer \notin DOMAIN schedules THEN Threw("not_found(E_PAYMENT_NOT_FOUND)")
  ELSE IF payment_id \notin DOMAIN schedules[payer].payments
    THEN Threw("not_found(E_PAYMENT_NOT_FOUND)")
  ELSE LET payment == schedules[payer].payments[payment_id]
       IN Ok(<<payment.recipient, payment.amount, payment.interval_seconds,
               payment.next_payment_time, payment.is_active>>)

\* The view is_payment_due: [threw, error, value].
is_payment_due(payer, payment_id) ==
  IF payer \notin DOMAIN schedules THEN Threw("not_found(E_PAYMENT_NOT_FOUND)")
  ELSE IF payment_id \notin DOMAIN schedules[payer].payments
    THEN Threw("not_found(E_PAYMENT_NOT_FOUND)")
  ELSE LET payment == schedules[payer].payments[payment_id]
       IN Ok(payment.is_active /\ chainTime >= payment.next_payment_time)

\* The number of events an account has emitted.
EventsOf(account_addr) ==
  IF account_addr \in DOMAIN schedules
    THEN Len(schedules[account_addr].payment_created_events)
           + Len(schedules[account_addr].payment_executed_events)
           + Len(schedules[account_addr].payment_cancelled_events)
    ELSE 0

EmittedEvents == EventsOf("0xa") + EventsOf("0xb")

\* One transaction: its writes are applied when it commits, none when it aborts.
Transact(fn, args, result) ==
  /\ result.abort # "" \/ EmittedEvents < MaxEvents
  /\ call' = [op |-> fn, args |-> args]
  /\ ret' = IF result.abort = "" THEN Ok(FALSE) ELSE Threw(result.abort)
  /\ schedules' = result.schedules
  /\ balances' = result.balances
  /\ UNCHANGED chainTime
  /\ UNCHANGED optimizerVars
  /\ UNCHANGED engineVars

\* <<account, recipient, amount, interval_seconds, start_time>>
CreateScheduledPaymentArgs ==
  { <<"0xa", "0xb", 1, 1, 0>>,
    <<"0xa", "0xb", 2, MAX_U64, 1>>,
    <<"0xa", "0xb", MAX_U64, 1, 0>>,
    <<"0xa", "0x0", 1, 1, 0>>,
    <<"0xa", "0xb", 0, 1, 0>>,
    <<"0xa", "0xb", 1, 0, 0>> }

\* <<executor, payer>>
ExecutePaymentArgs == { <<"0xa", "0xa">>, <<"0xb", "0xa">>, <<"0xb", "0xb">> }

InitializePaymentSchedules(account) ==
  Transact("initialize_payment_schedules", <<account>>,
           Committed(initialize_payment_schedules(schedules, account), balances))

CreateScheduledPayment(a) ==
  Transact("create_scheduled_payment", a,
           create_scheduled_payment(a[1], a[2], a[3], a[4], a[5]))

CancelScheduledPayment(account, payment_id) ==
  Transact("cancel_scheduled_payment", <<account, payment_id>>,
           cancel_scheduled_payment(account, payment_id))

ExecutePayment(executor, payer, payment_id) ==
  Transact("execute_payment", <<executor, payer, payment_id>>,
           execute_payment(executor, payer, payment_id))

View(fn, args, result) ==
  /\ call' = [op |-> fn, args |-> args]
  /\ ret' = result
  /\ UNCHANGED <<schedules, balances, chainTime>>
  /\ UNCHANGED optimizerVars
  /\ UNCHANGED engineVars

GetPaymentDetails(payer, payment_id) ==
  View("get_payment_details", <<payer, payment_id>>, get_payment_details(payer, payment_id))

IsPaymentDue(payer, payment_id) ==
  View("is_payment_due", <<payer, payment_id>>, is_payment_due(payer, payment_id))

\* A second passes on chain.
ChainTick ==
  /\ chainTime < MaxChainTime
  /\ chainTime' = chainTime + 1
  /\ call' = [op |-> "timestamp", args |-> <<>>]
  /\ ret' = Ok(FALSE)
  /\ UNCHANGED <<schedules, balances>>
  /\ UNCHANGED optimizerVars
  /\ UNCHANGED engineVars

(***************************************************************************)
(* Specifications                                                          *)
(***************************************************************************)
\* new AIYieldOptimizer(userRiskPreference), which stores its argument as
\* given, and new RiskAssessmentEngine() at time 0.
Init ==
  /\ protocols = InitialProtocols
  /\ userRiskPreference \in PreferenceArgs
  /\ updateCount = 0
  /\ thresholds = InitialThresholds
  /\ mockData = InitialMockData(0)
  /\ now = 0
  /\ call = [op |-> "constructor", args |-> <<userRiskPreference>>]
  /\ ret = Ok(FALSE)
  /\ memo = NoMemo
  /\ schedules = <<>>
  /\ balances = InitialBalances
  /\ chainTime = 0

\* The optimizer alone.
Next ==
  \/ \E v \in PreferenceArgs : SetRiskPreference(v)
  \/ \E a \in UpdateProtocolInfoArgs : UpdateProtocolInfo(a[1], a[2])
  \/ \E a \in OptimizeAllocationArgs : OptimizeAllocation(a[1], a[2])
  \/ \E c \in CurrentAllocationArgs : ShouldRebalance(c)
  \/ GetProtocolsInfo

Spec == Init /\ [][Next]_vars

\* The risk engine alone, beside an optimizer built with the default preference.
EngineInit == Init /\ userRiskPreference = 5

EngineNext ==
  \/ \E t \in SetRiskThresholdsArgs : SetRiskThresholds(t)
  \/ \E a \in AvailableLiquidityArgs : AssessLiquidityRisk(a)
  \/ AssessCollateralRisk
  \/ AssessLiquidationRisk
  \/ \E a \in AvailableLiquidityArgs : PerformRiskAssessment(a)
  \/ \E d \in UpdateMockDataArgs : UpdateMockData(d)
  \/ Tick

EngineSpec == EngineInit /\ [][EngineNext]_vars

\* Both objects side by side, each operation with one or two inputs.
SystemNext ==
  \/ \E v \in {1, MaxPreferenceArg} : SetRiskPreference(v)
  \/ \E id \in {3, MaxProtocolIdArg} : UpdateProtocolInfo(id, [currentApy |-> Num(1)])
  \/ OptimizeAllocation(<<"1", "0", "0", "0">>, 10)
  \/ ShouldRebalance(<<>>)
  \/ GetProtocolsInfo
  \/ SetRiskThresholds([liquidity |-> [medium |-> 90, high |-> 60, critical |-> 30]])
  \/ AssessLiquidityRisk(<<"5", "0">>)
  \/ AssessCollateralRisk
  \/ AssessLiquidationRisk
  \/ PerformRiskAssessment(<<"0">>)
  \/ UpdateMockData([positions |-> <<>>])
  \/ Tick

SystemSpec == EngineInit /\ [][SystemNext]_vars

\* The payment_automation module on chain, beside the two engines at rest.
ChainNext ==
  \/ \E a \in Signers : InitializePaymentSchedules(a)
  \/ \E a \in CreateScheduledPaymentArgs : CreateScheduledPayment(a)
  \/ \E a \in Signers, id \in 0..MaxPaymentIdArg : CancelScheduledPayment(a, id)
  \/ \E a \in ExecutePaymentArgs, id \in 0..MaxPaymentIdArg : ExecutePayment(a[1], a[2], id)
  \/ GetPaymentDetails("0xa", 0)
  \/ \E id \in 0..MaxPaymentIdArg : IsPaymentDue("0xa", id)
  \/ ChainTick

ChainSpec == EngineInit /\ [][ChainNext]_vars

(***************************************************************************)
(* Properties                                                              *)
(***************************************************************************)
\* reduce((sum, r) => sum + r.allocationPercentage, 0) over a returned list.
RECURSIVE SumAllocationPercentage(_)
SumAllocationPercentage(recommendations) ==
  IF recommendations = <<>> THEN Num(0)
  ELSE Add(Head(recommendations).allocationPercentage,
           SumAllocationPercentage(Tail(recommendations)))

\* C1: whenever optimizeAllocation has run with a risk preference in 1..10,
\* allocatable funds above 0 and at least one eligible protocol, the
\* allocationPercentage values of the list it returned sum to exactly 100.
C1_PercentagesSumTo100 ==
  ( /\ call.op = "optimizeAllocation"
    /\ userRiskPreference \in 1..10
    /\ Gt(AllocatableFunds(call.args[1], call.args[2]), Num(0))
    /\ EligibleProtocols(AllocatableFunds(call.args[1], call.args[2])) # <<>> )
  => SumAllocationPercentage(ret.value) = Num(100)

\* C2: shouldRebalance returns true exactly when, for some protocol id of the
\* current map or of the reference allocation, the current and the recommended
\* percentage (0 where the id is missing) differ by more than 10 points; so
\* shouldRebalance({}) is true whenever a recommended share exceeds 10.
C2_RebalanceIffSomeShareDiffers ==
  call.op = "shouldRebalance" =>
    LET recommendations == optimizeAllocation(<<"1", "0", "0", "0">>, 10)
        currentAllocation == call.args[1]
        ids == DOMAIN currentAllocation
                 \cup {recommendations[i].protocolId : i \in 1..Len(recommendations)}
        Current(id) == IF id \in DOMAIN currentAllocation
                         THEN OrZero(currentAllocation[id]) ELSE Num(0)
    IN ret.value =
         (\E id \in ids :
            Gt(MathAbs(Sub(Current(id), RecommendedAllocation(recommendations, id))),
               Num(10)))

\* C3: a setRiskPreference(v) call with v outside 1..10 throws and leaves the
\* stored preference as it was; with v in 1..10 it returns and the stored
\* preference is v.  The next optimizeAllocation uses the value just stored:
\* on the built-in catalog with funds "1000" and a 10% reserve it returns
\* Momentum 47 / Aries 29 / Thala 24 after setRiskPreference(1) and
\* Momentum 49 / Aries 31 / Thala 20 after setRiskPreference(10).
C3_SetRiskPreference ==
  [][ /\ call'.op = "setRiskPreference" =>
           IF call'.args[1] \in 1..10
             THEN /\ ~ret'.threw
                  /\ userRiskPreference' = call'.args[1]
             ELSE /\ ret'.threw
                  /\ ret'.error = "Risk preference must be between 1 and 10"
                  /\ userRiskPreference' = userRiskPreference
      /\ ( /\ call.op = "setRiskPreference"
           /\ ~ret.threw
           /\ call.args[1] \in {1, 10}
           /\ protocols = InitialProtocols
           /\ call'.op = "optimizeAllocation"
           /\ call'.args = << <<"1", "0", "0", "0">>, 10 >> )
         => /\ [i \in 1..Len(ret'.value) |-> ret'.value[i].protocolId] = <<3, 2, 1>>
            /\ [i \in 1..Len(ret'.value) |-> ret'.value[i].allocationPercentage]
                 = IF call.args[1] = 1 THEN <<Num(47), Num(29), Num(24)>>
                   ELSE <<Num(49), Num(31), Num(20)>>
    ]_vars

\* C3 witness: setRiskPreference(11) was rejected while the preference stored
\* by an earlier call or by the constructor is the boundary value 10.
C3_Witness ==
  /\ call.op = "setRiskPreference"
  /\ call.args[1] = 11
  /\ ret.threw
  /\ userRiskPreference = 10

\* C4: in every reachable state of the optimizer the stored risk preference
\* is an integer between 1 and 10.
C4_PreferenceInRange == userRiskPreference \in 1..10

\* C5: an updateProtocolInfo(id, fields) call throws "Protocol with ID <id> not found" and
\* leaves the catalog as it was when no entry has the id; otherwise it returns,
\* the first entry with the id holds the supplied values in the supplied
\* fields and its old values in its other fields, and every other entry is
\* unchanged.
C5_UpdateProtocolInfo ==
  [][ call'.op = "updateProtocolInfo" =>
        LET updates == call'.args[2]
            hits == {i \in 1..Len(protocols) : protocols[i].id = call'.args[1]}
        IN IF hits = {}
             THEN /\ ret'.threw
                  /\ ret'.error = "Protocol with ID " \o ToString(call'.args[1]) \o " not found"
                  /\ protocols' = protocols
             ELSE /\ ~ret'.threw
                  /\ Len(protocols') = Len(protocols)
                  /\ \E i \in hits :
                       /\ \A j \in hits : i <= j
                       /\ DOMAIN protocols'[i] = DOMAIN protocols[i] \cup DOMAIN updates
                       /\ \A f \in DOMAIN updates : protocols'[i][f] = updates[f]
                       /\ \A f \in DOMAIN protocols[i] \ DOMAIN updates :
                            protocols'[i][f] = protocols[i][f]
                       /\ \A j \in (1..Len(protocols)) \ {i} : protocols'[j] = protocols[j]
    ]_vars

\* C5 witness: updateProtocolInfo(3, {riskScore: 9, minimumDeposit: "1000"})
\* has returned; Momentum holds both new values and its old APY, Thala is as
\* built.
C5_Witness ==
  /\ call.op = "updateProtocolInfo"
  /\ ~ret.threw
  /\ call.args[1] = 3
  /\ protocols[3].riskScore = 9
  /\ protocols[3].minimumDeposit = <<"1", "0", "0", "0">>
  /\ protocols[3].currentApy = Frac(125, 10)
  /\ protocols[1] = InitialProtocols[1]

\* C6: in every reachable state of the risk engine each dimension's
\* thresholds satisfy medium > high > critical (setRiskThresholds having
\* rejected every triple that does not).
C6_ThresholdsOrdered ==
  \A dimension \in DOMAIN thresholds :
    /\ thresholds[dimension].medium > thresholds[dimension].high
    /\ thresholds[dimension].high > thresholds[dimension].critical

\* C7: every protocol optimizeAllocation recommends is a catalog entry whose
\* minimumDeposit is at most the allocatable funds, and the returned list is
\* empty when the allocatable funds are <= 0, when emergencyFundsPercentage is
\* 100, and when no catalog entry is eligible.
C7_OnlyEligibleProtocols ==
  call.op = "optimizeAllocation" =>
    LET allocatableFunds == AllocatableFunds(call.args[1], call.args[2])
        Eligible(j) == Le(parseFloat(protocols[j].minimumDeposit), allocatableFunds)
    IN /\ \A i \in 1..Len(ret.value) :
            \E j \in 1..Len(protocols) :
              /\ protocols[j].id = ret.value[i].protocolId
              /\ protocols[j].name = ret.value[i].protocolName
              /\ Eligible(j)
       /\ Le(allocatableFunds, Num(0)) => ret.value = <<>>
       /\ call.args[2] = 100 => ret.value = <<>>
       /\ (\A j \in 1..Len(protocols) : ~Eligible(j)) => ret.value = <<>>

\* C7 witness: optimizeAllocation("100", 10) has 90 to allocate, which leaves
\* out Momentum (minimum deposit 100), and recommends the two others.
C7_Witness ==
  /\ call.op = "optimizeAllocation"
  /\ call.args = << <<"1", "0", "0">>, 10 >>
  /\ protocols = InitialProtocols
  /\ Len(ret.value) = 2
  /\ \A i \in 1..2 : ret.value[i].protocolId # 3

C9_ReadsChangeNothing ==
  [][ /\ call'.op \in {"optimizeAllocation", "shouldRebalance", "getProtocolsInfo"}
           => /\ protocols' = protocols
              /\ userRiskPreference' = userRiskPreference
      /\ call'.op \in {"assessLiquidityRisk", "assessCollateralRisk",
                       "assessLiquidationRisk", "performRiskAssessment"}
           => /\ thresholds' = thresholds
              /\ mockData' = mockData
      /\ protocols' # protocols => call'.op = "updateProtocolInfo"
    ]_vars

\* C9 witness: optimizeAllocation has run on a catalog updateProtocolInfo had
\* changed, beside an engine whose thresholds and ledger had been changed.
C9_Witness ==
  /\ call.op = "optimizeAllocation"
  /\ protocols # InitialProtocols
  /\ thresholds # InitialThresholds
  /\ mockData.positions = <<>>
  /\ ret.value # <<>>

\* C10: the overallRiskLevel performRiskAssessment returns is the highest
\* level (Low < Medium < High < Critical) among its non-null sub-results, and
\* Low when all three are null; so it is Critical when any of them is.
C10_OverallIsMaxSeverity ==
  call.op = "performRiskAssessment" =>
    LET assessment == ret.value
        Severity(level) ==
          CASE level = "Low" -> 0 [] level = "Medium" -> 1
            [] level = "High" -> 2 [] level = "Critical" -> 3
        levels ==
          {assessment[f].riskLevel :
             f \in {g \in {"liquidityRisk", "collateralRisk", "liquidationRisk"} :
                      ~assessment[g].null}}
    IN /\ assessment.overallRiskLevel =
            IF levels = {} THEN "Low"
            ELSE CHOOSE l \in levels : \A m \in levels : Severity(m) <= Severity(l)
       /\ "Critical" \in levels => assessment.overallRiskLevel = "Critical"

\* C10 witness: performRiskAssessment("0") on a ledger with one healthy
\* position: the liquidity result alone is Critical and so is the overall level.
C10_Witness ==
  /\ call.op = "performRiskAssessment"
  /\ ~ret.value.liquidityRisk.null
  /\ ret.value.liquidityRisk.riskLevel = "Critical"
  /\ ~ret.value.collateralRisk.null
  /\ ret.value.collateralRisk.riskLevel = "Low"
  /\ ~ret.value.liquidationRisk.null
  /\ ret.value.liquidationRisk.riskLevel = "Low"
  /\ ret.value.overallRiskLevel = "Critical"

\* C11 as stated: whenever assessLiquidityRisk("0") has run on a ledger with a
\* pending payment of nonzero amount, it returned a result whose riskLevel is
\* Critical.
C11_ZeroLiquidityIsCritical ==
  ( /\ call.op = "assessLiquidityRisk"
    /\ call.args[1] = <<"0">>
    /\ \E i \in 1..Len(mockData.payments) :
         parseFloat(mockData.payments[i].amount) # Num(0) )
  => /\ ~ret.value.null
     /\ ret.value.riskLevel = "Critical"

\* C11 amended: whenever assessLiquidityRisk("0") has run on a ledger whose
\* payments in the base asset (0x1::aptos_coin::AptosCoin) have amounts that
\* sum to a nonzero number, with a critical liquidity threshold of at least 0,
\* it returned a result whose riskLevel is Critical.
C11_ZeroLiquidityIsCriticalForBaseAsset ==
  ( /\ call.op = "assessLiquidityRisk"
    /\ call.args[1] = <<"0">>
    /\ thresholds.liquidity.critical >= 0
    /\ \E i \in 1..Len(mockData.payments) :
         mockData.payments[i].coin = "0x1::aptos_coin::AptosCoin"
    /\ LET required ==
             SumPayments(mockData.payments, Len(mockData.payments)).requiredLiquidity
       IN IsFin(required) /\ required # Num(0) )
  => /\ ~ret.value.null
     /\ ret.value.riskLevel = "Critical"

\* C11 witness: assessLiquidityRisk("0") returned Critical under liquidity
\* thresholds set through setRiskThresholds and a ledger set through
\* updateMockData.
C11_Witness ==
  /\ call.op = "assessLiquidityRisk"
  /\ call.args[1] = <<"0">>
  /\ thresholds.liquidity = [medium |-> 90, high |-> 60, critical |-> 30]
  /\ Len(mockData.payments) = 1
  /\ ~ret.value.null
  /\ ret.value.riskLevel = "Critical"

\* The sum of the amounts of the payments in the base asset.
RECURSIVE SumBaseAssetAmounts(_)
SumBaseAssetAmounts(payments) ==
  IF payments = <<>> THEN Num(0)
  ELSE IF Head(payments).coin = "0x1::aptos_coin::AptosCoin"
    THEN Add(parseFloat(Head(payments).amount), SumBaseAssetAmounts(Tail(payments)))
    ELSE SumBaseAssetAmounts(Tail(payments))

\* C12: assessLiquidityRisk returns null exactly when the amounts of the
\* base-asset payments sum to zero; otherwise liquidityRatio is
\* min(100, available / required * 100), never above 100, and riskLevel is
\* Critical if the ratio <= the critical threshold, else High if <= high, else
\* Medium if <= medium, else Low.  Under the thresholds in force, of two ratios
\* at or next to a threshold the lower never gets the lower severity.
C12_LiquidityClassification ==
  LET t == thresholds.liquidity
      Severity(level) ==
        CASE level = "Low" -> 0 [] level = "Medium" -> 1
          [] level = "High" -> 2 [] level = "Critical" -> 3
      ratios == {c + d : c \in {t.critical, t.high, t.medium}, d \in {-1, 0, 1}}
  IN /\ \A lower \in ratios, higher \in ratios :
          lower < higher =>
            Severity(RiskLevel(Num(lower), t)) >= Severity(RiskLevel(Num(higher), t))
     /\ call.op = "assessLiquidityRisk" =>
          LET required == SumBaseAssetAmounts(mockData.payments)
              raw == Mul(Div(parseFloat(call.args[1]), required), Num(100))
          IN /\ ret.value.null <=> required = Num(0)
             /\ ~ret.value.null =>
                  /\ ret.value.liquidityRatio =
                       (IF IsNaN(raw) THEN NaN
                        ELSE IF Lt(Num(100), raw) THEN Num(100) ELSE raw)
                  /\ ~Gt(ret.value.liquidityRatio, Num(100))
                  /\ ret.value.riskLevel =
                       (IF Le(ret.value.liquidityRatio, Num(t.critical)) THEN "Critical"
                        ELSE IF Le(ret.value.liquidityRatio, Num(t.high)) THEN "High"
                        ELSE IF Le(ret.value.liquidityRatio, Num(t.medium)) THEN "Medium"
                        ELSE "Low")

\* C12 witness: assessLiquidityRisk("75") against the 100 APT payment (the
\* 50 USDC payment does not count) gave the ratio 75, which is Medium.
C12_Witness ==
  /\ call.op = "assessLiquidityRisk"
  /\ call.args[1] = <<"7", "5">>
  /\ Len(mockData.payments) = 2
  /\ thresholds.liquidity = InitialThresholds.liquidity
  /\ ~ret.value.null
  /\ ret.value.liquidityRatio = Num(75)
  /\ ret.value.riskLevel = "Medium"

\* C13: assessCollateralRisk returns null when there are no open positions;
\* a result it returns reports the lowest collateralValue / borrowedValue * 100
\* of all positions with the amounts and the liquidationThreshold of a position
\* that has it, and a riskLevel that is Critical if the ratio <= the critical
\* threshold, else High if <= high, else Medium if <= medium, else Low; a ratio
\* equal to the medium threshold yields Medium.
C13_CollateralClassification ==
  call.op = "assessCollateralRisk" =>
    LET positions == mockData.positions
        t == thresholds.collateral
        Ratio(i) ==
          Mul(Div(Mul(parseFloat(positions[i].collateralAmount),
                      PriceOf(positions[i].collateralAsset)),
                  Mul(parseFloat(positions[i].borrowedAmount),
                      PriceOf(positions[i].borrowedAsset))),
              Num(100))
    IN /\ positions = <<>> => ret.value.null
       /\ ~ret.value.null =>
            /\ \E i \in 1..Len(positions) :
                 /\ Ratio(i) = ret.value.collateralRatio
                 /\ positions[i].borrowedAmount = ret.value.borrowedAmount
                 /\ positions[i].collateralAmount = ret.value.collateralAmount
                 /\ positions[i].liquidationThreshold = ret.value.liquidationThreshold
            /\ \A j \in 1..Len(positions) : ~Lt(Ratio(j), ret.value.collateralRatio)
            /\ ret.value.riskLevel =
                 (IF Le(ret.value.collateralRatio, Num(t.critical)) THEN "Critical"
                  ELSE IF Le(ret.value.collateralRatio, Num(t.high)) THEN "High"
                  ELSE IF Le(ret.value.collateralRatio, Num(t.medium)) THEN "Medium"
                  ELSE "Low")
            /\ ret.value.collateralRatio = Num(t.medium) => ret.value.riskLevel = "Medium"

\* C14: assessLiquidationRisk returns null when there are no open positions; a
\* result it returns reports the shortest per-position estimate (0 when
\* priceGap <= 0, otherwise unbounded when the collateral's daily price change
\* is >= 0, otherwise priceGap / |dailyChange| days in seconds) with the
\* protocol of a position that has it, and a riskLevel that is Critical if the
\* time <= the critical threshold, else High if <= high, else Medium if
\* <= medium, else Low; a shorter time never gets a lower severity.
C14_LiquidationClassification ==
  LET t == thresholds.liquidation
      Severity(level) ==
        CASE level = "Critical" -> 3 [] level = "High" -> 2
          [] level = "Medium" -> 1 [] OTHER -> 0
      Times == {c + d : c \in {t.critical, t.high, t.medium}, d \in -1..1}
  IN /\ \A a, b \in Times :
          a <= b => Severity(RiskLevel(Num(a), t)) >= Severity(RiskLevel(Num(b), t))
     /\ call.op = "assessLiquidationRisk" =>
          LET positions == mockData.positions
              Gap(i) ==
                LET price == PriceOf(positions[i].collateralAsset)
                    borrowedValue == Mul(parseFloat(positions[i].borrowedAmount),
                                         PriceOf(positions[i].borrowedAsset))
                    liquidationPrice ==
                      Div(Div(Mul(borrowedValue, Num(positions[i].liquidationThreshold)),
                              Num(100)),
                          parseFloat(positions[i].collateralAmount))
                IN Mul(Div(Sub(price, liquidationPrice), price), Num(100))
              Estimate(i) ==
                LET dailyChange == PriceMovementOf(positions[i].collateralAsset)
                IN IF Le(Gap(i), Num(0)) THEN Num(0)
                   ELSE IF Le(Num(0), dailyChange) THEN MAX_SAFE_INTEGER
                   ELSE Mul(Div(Gap(i), MathAbs(dailyChange)), Num(86400))
          IN /\ positions = <<>> => ret.value.null
             /\ ~ret.value.null =>
                  /\ \E i \in 1..Len(positions) :
                       /\ Estimate(i) = ret.value.estimatedTimeToLiquidation
                       /\ positions[i].protocol = ret.value.protocol
                  /\ \A j \in 1..Len(positions) :
                       ~Lt(Estimate(j), ret.value.estimatedTimeToLiquidation)
                  /\ ret.value.riskLevel =
                       (IF Le(ret.value.estimatedTimeToLiquidation, Num(t.critical))
                          THEN "Critical"
                        ELSE IF Le(ret.value.estimatedTimeToLiquidation, Num(t.high))
                          THEN "High"
                        ELSE IF Le(ret.value.estimatedTimeToLiquidation, Num(t.medium))
                          THEN "Medium"
                        ELSE "Low")

\* The position at 500 USDC against 75 APT with threshold 125 is 16.67% above
\* its liquidation price, which a fall of 2.5 a day reaches in 576000 seconds.
C14_Witness ==
  /\ call.op = "assessLiquidationRisk"
  /\ ~ret.value.null
  /\ ret.value.protocol = "Aries"
  /\ ret.value.estimatedTimeToLiquidation = Num(576000)
  /\ thresholds.liquidation.medium = 604800
  /\ ret.value.riskLevel = "Medium"

\* C15: recommendedActions returned by performRiskAssessment is never empty:
\* it holds the 'positions appear stable' message exactly when no liquidity,
\* collateral or liquidation rule fired on the results of the assessment, and
\* then it holds nothing else.
C15_StableIffNoRuleFired ==
  call.op = "performRiskAssessment" =>
    LET assessment == ret.value
        actions == assessment.recommendedActions
        Stable(i) == actions[i].action = "Your positions appear stable"
        liquidityFired ==
          /\ ~assessment.liquidityRisk.null
          /\ Lt(assessment.liquidityRisk.liquidityRatio, Num(100))
        collateralFired ==
          /\ ~assessment.collateralRisk.null
          /\ Lt(assessment.collateralRisk.collateralRatio,
                Mul(Num(assessment.collateralRisk.liquidationThreshold), Frac(12, 10)))
        liquidationFired ==
          /\ ~assessment.liquidationRisk.null
          /\ \/ Lt(assessment.liquidationRisk.estimatedTimeToLiquidation, Num(7 * 86400))
             \/ Lt(assessment.liquidationRisk.priceGap, Num(10))
    IN /\ Len(actions) >= 1
       /\ (\E i \in 1..Len(actions) : Stable(i))
            <=> ~(liquidityFired \/ collateralFired \/ liquidationFired)
       /\ (\E i \in 1..Len(actions) : Stable(i)) => Len(actions) = 1

\* Three results, none of which fires a rule: liquidity covered, a position
\* far from its liquidation threshold and price.
C15_Witness ==
  /\ call.op = "performRiskAssessment"
  /\ ~ret.value.liquidityRisk.null
  /\ ~ret.value.collateralRisk.null
  /\ ~ret.value.liquidationRisk.null
  /\ ret.value.recommendedActions = <<StableAction>>

\* C20: performRiskAssessment emits the liquidity top-up action exactly when
\* the liquidity result is not null and its liquidityRatio is below 100, the
\* amount in the action is the required liquidity minus the available
\* liquidity, and the 'Urgent' action is emitted exactly when the top-up action
\* is and a base-asset payment is due in less than 24 hours.
C20_TopUpIsTheShortfall ==
  call.op = "performRiskAssessment" =>
    LET liquidityRisk == ret.value.liquidityRisk
        actions == ret.value.recommendedActions
        payments == mockData.payments
        TopUp(i) == actions[i].action = "Add APT to cover upcoming payment obligations"
        Urgent(i) == actions[i].action = "Urgent: Payment due in less than 24 hours"
        shortfall == Sub(SumBaseAssetAmounts(payments), parseFloat(call.args[1]))
        dueWithinADay ==
          \E p \in 1..Len(payments) :
            /\ payments[p].coin = "0x1::aptos_coin::AptosCoin"
            /\ payments[p].nextPaymentTime - now < 86400
    IN /\ (\E i \in 1..Len(actions) : TopUp(i))
            <=> (~liquidityRisk.null /\ Lt(liquidityRisk.liquidityRatio, Num(100)))
       /\ \A i \in 1..Len(actions) : TopUp(i) => actions[i].detail = toFixed(shortfall, 2)
       /\ (\E i \in 1..Len(actions) : Urgent(i))
            <=> ((\E i \in 1..Len(actions) : TopUp(i)) /\ dueWithinADay)

\* 75 available against one payment of 500 APT that is due now: a top-up of
\* 425.00 and the urgent message.
C20_Witness ==
  /\ call.op = "performRiskAssessment"
  /\ call.args[1] = <<"7", "5">>
  /\ Len(ret.value.recommendedActions) >= 2
  /\ ret.value.recommendedActions[1] =
       [action |-> "Add APT to cover upcoming payment obligations",
        detail |-> <<"4", "2", "5", ".", "0", "0">>]
  /\ ret.value.recommendedActions[2].action = "Urgent: Payment due in less than 24 hours"

\* C16: the list returned by optimizeAllocation is ordered by non-increasing
\* risk-adjusted APY, apy - riskScore * (11 - riskPreference) / 10, and
\* protocols of equal risk-adjusted APY appear in catalog order: its rows are
\* rows of the catalog, each with a higher adjusted APY than the rows after it
\* or with the same and an earlier place in the catalog.
C16_SortedByAdjustedApy ==
  (call.op = "optimizeAllocation" /\ ~ret.threw) =>
    LET recommendations == ret.value
        Adjusted(i) ==
          Sub(protocols[i].currentApy,
              Div(Num(protocols[i].riskScore * (11 - userRiskPreference)), Num(10)))
    IN \E place \in [1..Len(recommendations) -> 1..Len(protocols)] :
         /\ \A k \in 1..Len(recommendations) :
              /\ recommendations[k].protocolId = protocols[place[k]].id
              /\ recommendations[k].protocolName = protocols[place[k]].name
              /\ recommendations[k].expectedApy = protocols[place[k]].currentApy
         /\ \A k, l \in 1..Len(recommendations) :
              k < l =>
                \/ Gt(Adjusted(place[k]), Adjusted(place[l]))
                \/ Adjusted(place[k]) = Adjusted(place[l]) /\ place[k] < place[l]

\* At preference 5 with Aries at 6.4, Thala and Aries both adjust to 3.4:
\* Momentum comes first, then Thala before Aries as in the catalog.
C16_Witness ==
  /\ call.op = "optimizeAllocation"
  /\ userRiskPreference = 5
  /\ protocols[2].currentApy = Frac(64, 10)
  /\ Len(ret.value) = 3
  /\ ret.value[1].protocolName = "Momentum"
  /\ ret.value[2].protocolName = "Thala"
  /\ ret.value[3].protocolName = "Aries"

\* C17 as stated: the risk penalty subtracted from a protocol's APY is zero at
\* risk preference 10, where the risk-adjusted APY equals the raw APY of every
\* protocol, is heaviest at preference 1 and decreases as the preference rises
\* from 1 to 10.
C17_PenaltyZeroAtTen ==
  [][ (call'.op = "setRiskPreference" /\ ~ret'.threw /\ userRiskPreference \in 1..10) =>
        \A i \in 1..Len(protocols) :
          protocols[i].riskScore > 0 =>
            LET before == RiskPenalty(protocols[i].riskScore, userRiskPreference)
                after == RiskPenalty(protocols'[i].riskScore, userRiskPreference')
            IN /\ userRiskPreference' > userRiskPreference => Lt(after, before)
               /\ userRiskPreference' < userRiskPreference => Gt(after, before)
               /\ userRiskPreference' = 10 => after = Num(0)
    ]_vars

\* C17: the risk penalty subtracted from the APY of a protocol with a positive
\* riskScore is lightest at risk preference 10, where it is riskScore / 10,
\* is heaviest at preference 1, where it is the riskScore, and decreases as
\* the preference rises from 1 to 10.
C17_PenaltyDecreasesWithPreference ==
  [][ (call'.op = "setRiskPreference" /\ ~ret'.threw /\ userRiskPreference \in 1..10) =>
        \A i \in 1..Len(protocols) :
          protocols[i].riskScore > 0 =>
            LET before == RiskPenalty(protocols[i].riskScore, userRiskPreference)
                after == RiskPenalty(protocols'[i].riskScore, userRiskPreference')
            IN /\ userRiskPreference' > userRiskPreference => Lt(after, before)
               /\ userRiskPreference' < userRiskPreference => Gt(after, before)
               /\ userRiskPreference' = 10 => after = Frac(protocols[i].riskScore, 10)
               /\ userRiskPreference' = 1 => after = Num(protocols[i].riskScore)
    ]_vars

\* setRiskPreference(10) has returned: Thala's 5.2 adjusts to 4.9, not to 5.2.
C17_Witness ==
  /\ call.op = "setRiskPreference"
  /\ call.args[1] = 10
  /\ ~ret.threw
  /\ userRiskPreference = 10
  /\ protocols[1] = InitialProtocols[1]
  /\ calculateRiskAdjustedApy(protocols[1].currentApy, protocols[1].riskScore) = Frac(49, 10)

\* The nearest integer to x, a half going up.
RoundHalfUp(x) == IF IsFin(x) THEN Num((2 * x.n + x.d) \div (2 * x.d)) ELSE x

\* The percentage ledger over the sorted eligible protocols: the allocation
\* computed for the one at place k, and the percentage remaining before it.
RECURSIVE LedgerAllocation(_, _, _), LedgerRemaining(_, _, _)
LedgerRemaining(sorted, total, k) ==
  IF k = 1 THEN Num(100)
  ELSE Sub(LedgerRemaining(sorted, total, k - 1), LedgerAllocation(sorted, total, k - 1))

LedgerAllocation(sorted, total, k) ==
  IF k = Len(sorted) THEN LedgerRemaining(sorted, total, k)
  ELSE MathMin(RoundHalfUp(Div(Mul(Num(100), sorted[k].adjustedApy), total)),
               LedgerRemaining(sorted, total, k))

\* The rows for the places from k on whose computed allocation is above 0.
RECURSIVE LedgerRows(_, _, _)
LedgerRows(sorted, total, k) ==
  IF k > Len(sorted) THEN <<>>
  ELSE (IF Gt(LedgerAllocation(sorted, total, k), Num(0))
          THEN << [protocolId |-> sorted[k].id,
                   allocationPercentage |-> LedgerAllocation(sorted, total, k)] >>
          ELSE <<>>)
       \o LedgerRows(sorted, total, k + 1)

\* The eligible protocols of the optimizeAllocation call just made, sorted.
SortedEligibleOfCall ==
  ProtocolsWithAdjustedApy(EligibleProtocols(AllocatableFunds(call.args[1], call.args[2])))

\* C18: in optimizeAllocation every eligible protocol except the last in sort
\* order is allocated min(round-half-up(100 * adjustedApy / totalAdjustedApy),
\* remaining percentage), the last is allocated the whole remaining
\* percentage, the remaining percentage goes down by each computed allocation,
\* and a protocol whose computed allocation is 0 is left out of the output
\* while the ledger still accounts for it: the output is the rows of that
\* ledger whose allocation is above 0, in order.
C18_AllocationLedger ==
  (call.op = "optimizeAllocation" /\ ~ret.threw) =>
    [i \in 1..Len(ret.value) |->
       [protocolId |-> ret.value[i].protocolId,
        allocationPercentage |-> ret.value[i].allocationPercentage]]
      = LedgerRows(SortedEligibleOfCall, SumAdjustedApy(SortedEligibleOfCall), 1)

\* Three eligible protocols of which one is computed 0 and left out, after
\* an earlier one was cut down to the percentage that remained.
C18_Witness ==
  /\ call.op = "optimizeAllocation"
  /\ Len(SortedEligibleOfCall) = 3
  /\ Len(ret.value) = 2
  /\ \E k \in 1..3 :
       LedgerAllocation(SortedEligibleOfCall, SumAdjustedApy(SortedEligibleOfCall), k) = Num(0)
  /\ ret.value[1].allocationPercentage # Num(100)

\* C19: every recommendation is the row of a catalog protocol: its riskLevel
\* is Low when that protocol's riskScore <= 3, Medium when 3 < riskScore <= 6
\* and High when riskScore > 6, its expectedApy is the protocol's raw APY, and
\* its reason is the 'strongly recommended' text when allocationPercentage
\* > 50, the 'good allocation' text when 25 < allocationPercentage <= 50 and
\* the 'small allocation' text otherwise, with that APY and that level in it.
C19_RecommendationFields ==
  (call.op = "optimizeAllocation" /\ ~ret.threw) =>
    \A i \in 1..Len(ret.value) :
      LET row == ret.value[i]
      IN /\ \E j \in 1..Len(protocols) :
              /\ row.protocolId = protocols[j].id
              /\ row.protocolName = protocols[j].name
              /\ row.expectedApy = protocols[j].currentApy
              /\ row.reason.apy = protocols[j].currentApy
              /\ protocols[j].riskScore <= 3 => row.riskLevel = "Low"
              /\ (3 < protocols[j].riskScore /\ protocols[j].riskScore <= 6)
                   => row.riskLevel = "Medium"
              /\ protocols[j].riskScore > 6 => row.riskLevel = "High"
         /\ row.reason.risk = row.riskLevel
         /\ row.reason.tier =
              (IF Gt(row.allocationPercentage, Num(50)) THEN "Strongly recommended"
               ELSE IF Gt(row.allocationPercentage, Num(25))
                         /\ Le(row.allocationPercentage, Num(50))
                 THEN "Good allocation"
               ELSE "Small allocation")

\* A list in which a protocol at exactly 50 percent has the 'good allocation'
\* text and Thala, whose riskScore is 3, is Low with a penalised APY that
\* differs from the raw one it reports.
C19_Witness ==
  /\ call.op = "optimizeAllocation"
  /\ \E i \in 1..Len(ret.value) :
       /\ ret.value[i].allocationPercentage = Num(50)
       /\ ret.value[i].reason.tier = "Good allocation"
  /\ \E i \in 1..Len(ret.value) :
       /\ ret.value[i].protocolName = "Thala"
       /\ protocols[1].riskScore = 3
       /\ ret.value[i].riskLevel = "Low"
       /\ ret.value[i].expectedApy = protocols[1].currentApy
       /\ calculateRiskAdjustedApy(protocols[1].currentApy, 3) # protocols[1].currentApy

\* The dimension an action belongs to: 1 liquidity, 2 collateral,
\* 3 liquidation, 0 for the stable message.
DimensionOfAction(action) ==
  CASE action \in {"Add APT to cover upcoming payment obligations",
                   "Urgent: Payment due in less than 24 hours"} -> 1
    [] action \in {"Consider adding more collateral for a safer buffer",
                   "Warning: Collateral ratio approaching liquidation threshold"} -> 2
    [] action \in {"Critical: position at high risk of liquidation within 3 days",
                   "Warning: position may face liquidation within a week",
                   "Collateral price only slightly above liquidation price"} -> 3
    [] OTHER -> 0

\* C21: recommendedActions is ordered by dimension, all liquidity actions,
\* then all collateral actions, then all liquidation actions; the collateral
\* 'approaching liquidation threshold' warning appears only directly after
\* the 'safer buffer' suggestion; and the liquidation 'Critical' and 'Warning'
\* actions never both appear in one result.
C21_ActionsOrderedByDimension ==
  call.op = "performRiskAssessment" =>
    LET actions == ret.value.recommendedActions
        Has(text) == \E i \in 1..Len(actions) : actions[i].action = text
    IN /\ \A i, j \in 1..Len(actions) :
            i < j => DimensionOfAction(actions[i].action)
                       <= DimensionOfAction(actions[j].action)
       /\ \A i \in 1..Len(actions) :
            actions[i].action = "Warning: Collateral ratio approaching liquidation threshold"
              => /\ i > 1
                 /\ actions[i - 1].action
                      = "Consider adding more collateral for a safer buffer"
       /\ ~(/\ Has("Critical: position at high risk of liquidation within 3 days")
            /\ Has("Warning: position may face liquidation within a week"))

\* With nothing available and the ledger as built all three dimensions speak:
\* the top-up, the buffer suggestion with the warning right behind it, the
\* critical liquidation action and the price-gap suggestion.
C21_Witness ==
  /\ call.op = "performRiskAssessment"
  /\ Len(ret.value.recommendedActions) = 5
  /\ ret.value.recommendedActions[1].action = "Add APT to cover upcoming payment obligations"
  /\ ret.value.recommendedActions[2].action = "Consider adding more collateral for a safer buffer"
  /\ ret.value.recommendedActions[3].action
       = "Warning: Collateral ratio approaching liquidation threshold"
  /\ ret.value.recommendedActions[4].action
       = "Critical: position at high risk of liquidation within 3 days"
  /\ ret.value.recommendedActions[5].action
       = "Collateral price only slightly above liquidation price"

\* C28: whenever performRiskAssessment returns overallRiskLevel High or
\* Critical, recommendedActions holds at least one action other than the
\* 'positions appear stable' message.
C28_HighRiskHasAnAction ==
  (call.op = "performRiskAssessment" /\ ret.value.overallRiskLevel \in {"High", "Critical"}) =>
    \E i \in 1..Len(ret.value.recommendedActions) :
      ret.value.recommendedActions[i].action # "Your positions appear stable"

\* C29: assessCollateralRisk and assessLiquidationRisk return null only for an
\* empty position ledger: with at least one open position the result is not
\* null, also when no position is moving towards liquidation or a position
\* has zero borrowed amount.
C29_NullOnlyWithoutPositions ==
  call.op \in {"assessCollateralRisk", "assessLiquidationRisk"} =>
    (ret.value.null <=> mockData.positions = <<>>)

\* C24: every allocationPercentage in a list returned by optimizeAllocation is
\* an integer between 1 and 100 inclusive, for every catalog reachable through
\* updateProtocolInfo and every risk preference in 1..10.
C24_PercentageIsIntegerInRange ==
  (call.op = "optimizeAllocation" /\ ~ret.threw /\ userRiskPreference \in 1..10) =>
    \A i \in 1..Len(ret.value) :
      LET allocationPercentage == ret.value[i].allocationPercentage
      IN /\ IsFin(allocationPercentage)
         /\ allocationPercentage.n % allocationPercentage.d = 0
         /\ Le(Num(1), allocationPercentage)
         /\ Le(allocationPercentage, Num(100))

\* The risk-adjusted APY of the catalog protocol a recommendation names.
AdjustedApyOfRow(row) ==
  LET j == CHOOSE j \in 1..Len(protocols) :
             protocols[j].id = row.protocolId /\ protocols[j].name = row.protocolName
  IN Sub(protocols[j].currentApy,
         Div(Num(protocols[j].riskScore * (11 - userRiskPreference)), Num(10)))

\* C25: whenever two protocols A and B both appear in a list returned by
\* optimizeAllocation and A's risk-adjusted APY is strictly higher than B's,
\* A's allocationPercentage is not smaller than B's.
C25_AllocationRespectsRanking ==
  (call.op = "optimizeAllocation" /\ ~ret.threw) =>
    \A a, b \in 1..Len(ret.value) :
      Gt(AdjustedApyOfRow(ret.value[a]), AdjustedApyOfRow(ret.value[b]))
        => ~Lt(ret.value[a].allocationPercentage, ret.value[b].allocationPercentage)

\* C26: for every recommendation returned by optimizeAllocation, the amount it
\* implies, allocatable funds x allocationPercentage / 100, is at least the
\* minimumDeposit of the protocol it names.
C26_ImpliedAmountCoversMinimumDeposit ==
  (call.op = "optimizeAllocation" /\ ~ret.threw) =>
    \A i \in 1..Len(ret.value) :
      \E j \in 1..Len(protocols) :
        /\ protocols[j].id = ret.value[i].protocolId
        /\ protocols[j].name = ret.value[i].protocolName
        /\ Le(parseFloat(protocols[j].minimumDeposit),
              Div(Mul(AllocatableFunds(call.args[1], call.args[2]),
                      ret.value[i].allocationPercentage),
                  Num(100)))

\* C27: after any sequence of updateProtocolInfo calls the catalog holds the
\* number of entries it was built with, with pairwise distinct ids, and no
\* protocolId appears twice in a list returned by optimizeAllocation or
\* getProtocolsInfo.
C27_DistinctProtocolIds ==
  /\ Len(protocols) = Len(InitialProtocols)
  /\ \A i, j \in 1..Len(protocols) : i # j => protocols[i].id # protocols[j].id
  /\ (call.op = "optimizeAllocation" /\ ~ret.threw) =>
       \A i, j \in 1..Len(ret.value) :
         i # j => ret.value[i].protocolId # ret.value[j].protocolId
  /\ (call.op = "getProtocolsInfo" /\ ~ret.threw) =>
       \A i, j \in 1..Len(ret.value) : i # j => ret.value[i].id # ret.value[j].id

(***************************************************************************)
(* Claims about paymaster::payment_automation                              *)
(***************************************************************************)
\* The payer holds a payment with this id that is active and due now.
ExistingActiveDue(payer, payment_id) ==
  /\ payer \in DOMAIN schedules
  /\ payment_id \in DOMAIN schedules[payer].payments
  /\ schedules[payer].payments[payment_id].is_active
  /\ chainTime >= schedules[payer].payments[payment_id].next_payment_time

\* C22: execute_payment can be called by anyone: for an existing, active
\* payment that is due, a call whose executor differs from the payer succeeds.
\* (A call that aborts leaves the chain as it was, so after an aborted call
\* the payment is seen as the call found it; after a successful one the
\* payment is no longer due.)
C22_AnyoneCanExecute ==
  ( /\ call.op = "execute_payment"
    /\ call.args[1] # call.args[2]
    /\ ExistingActiveDue(call.args[2], call.args[3]) )
  => ~ret.threw

\* The executed events of an account for one payment id, in order.
ExecutedEventsOf(account_addr, payment_id) ==
  SelectSeq(schedules[account_addr].payment_executed_events,
            LAMBDA e : e.payment_id = payment_id)

\* Successive executions of every payment are at least its interval apart,
\* and the first is not before the time the payment was created for.
C23_ExecutionsSpaced ==
  \A a \in DOMAIN schedules :
    \A id \in DOMAIN schedules[a].payments :
      LET executed == ExecutedEventsOf(a, id)
          payment == schedules[a].payments[id]
      IN /\ \A i \in 1..Len(executed) :
              \A j \in (i + 1)..Len(executed) :
                executed[j].executed_at - executed[i].executed_at
                  >= payment.interval_seconds
         /\ \A i \in 1..Len(executed) :
              executed[i].executed_at
                >= schedules[a].payment_created_events[id + 1].next_payment_time

\* A step of execute_payment: a successful one found the payment existing,
\* active and due, moved the coins and set next_payment_time to now plus the
\* interval; a failed one changed neither the schedules nor a balance.
C23_ExecuteStep ==
  call'.op = "execute_payment" =>
    LET payer == call'.args[2]
        payment_id == call'.args[3]
    IN IF ret'.threw
         THEN schedules' = schedules /\ balances' = balances
         ELSE /\ ExistingActiveDue(payer, payment_id)
              /\ schedules'[payer].payments[payment_id].next_payment_time
                   = chainTime + schedules[payer].payments[payment_id].interval_seconds

\* C23: execute_payment succeeds only for a payment that exists, is active and
\* is due, and on success sets next_payment_time to now + interval_seconds;
\* two successful executions of one payment are at least interval_seconds
\* apart; a failed call changes neither the schedule nor any balance.
C23_ExecuteOnlyWhenDue == []C23_ExecutionsSpaced /\ [][C23_ExecuteStep]_vars

\* A payment has been executed twice, the second time just now.
C23_Witness ==
  /\ call.op = "execute_payment"
  /\ ~ret.threw
  /\ Len(ExecutedEventsOf(call.args[2], call.args[3])) >= 2

\* The ids an account has cancelled.
CancelledIds(account_addr) ==
  {schedules[account_addr].payment_cancelled_events[i].payment_id :
     i \in 1..Len(schedules[account_addr].payment_cancelled_events)}

\* No execution of a cancelled payment is on record after its cancellation,
\* a cancelled payment is inactive, and the ids of an account are
\* 0 .. next_payment_id - 1 in the order of creation.
C30_CancelledStaysCancelled ==
  /\ (call.op = "execute_payment" /\ ~ret.threw)
       => call.args[3] \notin CancelledIds(call.args[2])
  /\ \A a \in DOMAIN schedules :
       LET resource == schedules[a] IN
       /\ DOMAIN resource.payments = 0..(resource.next_payment_id - 1)
       /\ Len(resource.payment_created_events) = resource.next_payment_id
       /\ \A i \in 1..Len(resource.payment_created_events) :
            /\ resource.payment_created_events[i].payment_id = i - 1
            /\ resource.payments[i - 1].payment_id = i - 1
       /\ \A id \in CancelledIds(a) : ~resource.payments[id].is_active
       /\ \A i \in 1..Len(resource.payment_executed_events) :
            \A j \in 1..Len(resource.payment_cancelled_events) :
              resource.payment_executed_events[i].payment_id
                  = resource.payment_cancelled_events[j].payment_id
                => resource.payment_executed_events[i].executed_at
                     <= resource.payment_cancelled_events[j].cancelled_at

\* A step leaves a cancelled payment cancelled, executes it no more, moves no
\* coins when asked to execute it, and next_payment_id grows by one with
\* each payment created and not otherwise.
C30_Step ==
  \A a \in DOMAIN schedules :
    /\ a \in DOMAIN schedules'
    /\ schedules'[a].next_payment_id - schedules[a].next_payment_id
         = Len(schedules'[a].payment_created_events)
             - Len(schedules[a].payment_created_events)
    /\ schedules'[a].next_payment_id - schedules[a].next_payment_id \in {0, 1}
    /\ \A id \in CancelledIds(a) :
         /\ id \in DOMAIN schedules'[a].payments
         /\ ~schedules'[a].payments[id].is_active
         /\ schedules'[a].payments[id].next_payment_time
              = schedules[a].payments[id].next_payment_time
         /\ (call'.op = "execute_payment" /\ call'.args[2] = a /\ call'.args[3] = id)
              => (ret'.threw /\ balances' = balances)

\* C30: cancellation is final: after a successful cancel_scheduled_payment no
\* execute_payment for that id succeeds and no coins move for it, whatever
\* create, cancel and execute calls follow; payment ids are never reused.
C30_CancellationIsFinal == []C30_CancelledStaysCancelled /\ [][C30_Step]_vars

\* A payment that was executed and then cancelled has just been refused.
C30_Witness ==
  /\ call.op = "execute_payment"
  /\ ret.threw
  /\ ret.error = "invalid_state(E_PAYMENT_NOT_FOUND)"
  /\ call.args[3] \in CancelledIds(call.args[2])
  /\ Len(ExecutedEventsOf(call.args[2], call.args[3])) >= 1

=============================================================================
